---- MODULE Spec2Model ----
(***************************************************************************)
(* Atlas fitness and nutrition chatbot: the recommendation and safety      *)
(* pipeline (core/safety_validator.py, core/recommender.py,                *)
(* core/simple_memory.py) and the chat endpoint that composes them         *)
(* (app.py, chat_endpoint).                                                *)
(*                                                                         *)
(* Python strings are TLA+ strings; a Python dict is a function whose      *)
(* DOMAIN is the set of keys present.  BMI values are kept in tenths       *)
(* (185 is 18.5), the precision calculate_bmi rounds to.                   *)
(***************************************************************************)
EXTENDS Integers, Sequences, FiniteSets, TLC

VARIABLES
    v_profile,   \* validate_request: the profile passed in
    v_result,    \* validate_request: the (is_safe, message) pair returned
    v_called,    \* validate_request: TRUE once the call has returned
    f_list,      \* filter_exercises_for_injuries: exercises_list
    f_cond,      \* filter_exercises_for_injuries: medical_conditions_str
    f_result,    \* filter_exercises_for_injuries: (filtered_list, warnings)
    f_called,    \* filter_exercises_for_injuries: TRUE once the call has returned
    fitness_exercises,  \* Firestore collection fitness_exercises, in stream order
    nutrition_items,    \* Firestore collection nutrition_items, in stream order
    Fitness,            \* Firestore collection Fitness, in stream order
    r_args,      \* get_recommendations: the arguments of the call
    r_result,    \* get_recommendations: the list returned
    r_called,    \* get_recommendations: TRUE once the call has returned
    users_profile,           \* Firestore document users/{user_id}
    recent_recommendations,  \* Firestore collection users/{user_id}/recent_recommendations, oldest first
    session,     \* the session dict the client holds and sends with its next message
    reply,       \* the last reply of chat_endpoint, with the calls it made
    n_msgs,      \* number of messages the endpoint has answered
    process,     \* the server process: "starting", "running" or "crashed"
    memory_ok,   \* no call of the recency store raised during the last message
    stages,      \* the stages of the recommendation flow the last message went through
    favorites,   \* Firestore collection users/{user_id}/favorites, by document id
    feedback_reply,  \* the last response of POST /feedback
    n_feedback,  \* number of feedback requests answered
    shown_titles,  \* history: the titles replied per kind since its last initial request
    s_candidates,  \* scoring block: the candidate pool, in retrieval order
    s_cosine,      \* scoring block: base_scores, one cosine similarity per candidate
    s_args,        \* scoring block: user_profile, likes and top_k
    s_rows,        \* scoring block: the rows of df after the block
    s_result,      \* scoring block: the list built from df
    s_called,      \* scoring block: TRUE once the list has been built
    now,           \* datetime.now(), in units of 12 hours
    m_recent,  \* SimpleMemory: the last result of get_recent_items
    m_query,  \* SimpleMemory: category and time of that call
    n_writes,      \* SimpleMemory: number of log_interaction calls made
    weight_logs,     \* Firestore collection users/{user_id}/weight_logs, oldest first
    nutrition_logs,  \* Firestore document users/{user_id}/nutrition_logs/{today}
    calls,           \* add_nutrition_log: the calls made, each with its position
    n_ops            \* number of profile updates and weight logs handled

v_vars == <<v_profile, v_result, v_called>>
f_vars == <<f_list, f_cond, f_result, f_called>>
db_vars == <<fitness_exercises, nutrition_items, Fitness>>
r_vars == <<r_args, r_result, r_called>>
chat_vars == <<users_profile, recent_recommendations, session, reply, n_msgs, process, memory_ok, stages, favorites, feedback_reply, n_feedback, shown_titles>>
s_vars == <<s_candidates, s_cosine, s_args, s_rows, s_result, s_called>>
m_vars == <<now, m_recent, m_query, n_writes>>
p_vars == <<weight_logs, nutrition_logs, calls, n_ops>>
vars == <<v_vars, f_vars, db_vars, r_vars, chat_vars, s_vars, m_vars, p_vars>>

(***************************************************************************)
(* Python string and dict primitives                                       *)
(***************************************************************************)

\* dict.get(key, default)
Get(d, k, default) == IF k \in DOMAIN d THEN d[k] ELSE default

\* `sub in s` on strings
Contains(sub, s) ==
    \E i \in 0..(Len(s) - Len(sub)) : SubSeq(s, i + 1, i + Len(sub)) = sub

UpperChars == "ABCDEFGHIJKLMNOPQRSTUVWXYZ"
LowerChars == "abcdefghijklmnopqrstuvwxyz"

LowerChar(c) ==
    IF \E i \in 1..Len(UpperChars) : SubSeq(UpperChars, i, i) = c
    THEN LET i == CHOOSE j \in 1..Len(UpperChars) : SubSeq(UpperChars, j, j) = c
         IN  SubSeq(LowerChars, i, i)
    ELSE c

\* str.lower()
RECURSIVE Lower(_)
Lower(s) == IF s = "" THEN "" ELSE LowerChar(Head(s)) \o Lower(Tail(s))

RECURSIVE LStrip(_)
LStrip(s) == IF s # "" /\ Head(s) = " " THEN LStrip(Tail(s)) ELSE s

RECURSIVE RStrip(_)
RStrip(s) ==
    IF s # "" /\ SubSeq(s, Len(s), Len(s)) = " "
    THEN RStrip(SubSeq(s, 1, Len(s) - 1))
    ELSE s

\* str.strip()
Strip(s) == RStrip(LStrip(s))

\* the normalisation str(x).strip().lower() used for titles, names and terms
Norm(s) == Lower(Strip(s))

UpperChar(c) ==
    IF \E i \in 1..Len(LowerChars) : SubSeq(LowerChars, i, i) = c
    THEN LET i == CHOOSE j \in 1..Len(LowerChars) : SubSeq(LowerChars, j, j) = c
         IN  SubSeq(UpperChars, i, i)
    ELSE c

IsLetter(c) ==
    \E i \in 1..Len(LowerChars) :
        SubSeq(LowerChars, i, i) = c \/ SubSeq(UpperChars, i, i) = c

\* str.title(): a letter that follows a non-letter is upper-cased, every other
\* letter lower-cased
RECURSIVE TitleFrom(_, _)
TitleFrom(s, afterLetter) ==
    IF s = "" THEN ""
    ELSE (IF afterLetter THEN LowerChar(Head(s)) ELSE UpperChar(Head(s)))
         \o TitleFrom(Tail(s), IsLetter(Head(s)))

TitleCase(s) == TitleFrom(s, FALSE)

\* the set of elements of a list
Range(seq) == {seq[i] : i \in DOMAIN seq}

\* seq[:n]
Take(seq, n) == SubSeq(seq, 1, IF Len(seq) < n THEN Len(seq) ELSE n)

Min(a, b) == IF a < b THEN a ELSE b

(***************************************************************************)
(* SafetyValidator.validate_request                                        *)
(***************************************************************************)

MsgNone          == ""
MsgAge           == "Age Restriction"
MsgUnderweight   == "Health Alert"
MsgRecomposition == "Health Advice"
MsgMedical       == "Medical Consultation Required"

\* validate_request without the severe-underweight check (scenario C dropped)
validate_request_NoSevereCheck(user_profile) ==
    LET age  == Get(user_profile, "age", 25)
        bmi  == Get(user_profile, "bmi", 220)
        goal == Get(user_profile, "goal", "General Fitness")
    IN  IF age < 18
        THEN [ok |-> FALSE, msg |-> MsgAge]
        ELSE IF bmi < 185 /\ (Contains("Loss", goal) \/ Contains("Cut", goal))
        THEN [ok |-> FALSE, msg |-> MsgUnderweight]
        ELSE IF bmi > 350 /\ (Contains("Muscle", goal) \/ Contains("Gain", goal))
                /\ ~Contains("Loss", goal)
        THEN [ok |-> FALSE, msg |-> MsgRecomposition]
        ELSE [ok |-> TRUE, msg |-> MsgNone]

\* validate_request with the underweight boundary off by one (bmi <= 18.5)
validate_request_UnderweightInclusive(user_profile) ==
    LET age  == Get(user_profile, "age", 25)
        bmi  == Get(user_profile, "bmi", 220)
        goal == Get(user_profile, "goal", "General Fitness")
    IN  IF age < 18
        THEN [ok |-> FALSE, msg |-> MsgAge]
        ELSE IF bmi <= 185 /\ (Contains("Loss", goal) \/ Contains("Cut", goal))
        THEN [ok |-> FALSE, msg |-> MsgUnderweight]
        ELSE IF bmi > 350 /\ (Contains("Muscle", goal) \/ Contains("Gain", goal))
                /\ ~Contains("Loss", goal)
        THEN [ok |-> FALSE, msg |-> MsgRecomposition]
        ELSE IF bmi < 160
        THEN [ok |-> FALSE, msg |-> MsgMedical]
        ELSE [ok |-> TRUE, msg |-> MsgNone]

validate_request(user_profile) ==
    LET age  == Get(user_profile, "age", 25)
        bmi  == Get(user_profile, "bmi", 220)
        goal == Get(user_profile, "goal", "General Fitness")
    IN  IF age < 18
        THEN [ok |-> FALSE, msg |-> MsgAge]
        ELSE IF bmi < 185 /\ (Contains("Loss", goal) \/ Contains("Cut", goal))
        THEN [ok |-> FALSE, msg |-> MsgUnderweight]
        ELSE IF bmi > 350 /\ (Contains("Muscle", goal) \/ Contains("Gain", goal))
                /\ ~Contains("Loss", goal)
        THEN [ok |-> FALSE, msg |-> MsgRecomposition]
        ELSE IF bmi < 160
        THEN [ok |-> FALSE, msg |-> MsgMedical]
        ELSE [ok |-> TRUE, msg |-> MsgNone]

(***************************************************************************)
(* SafetyValidator.filter_exercises_for_injuries                           *)
(***************************************************************************)

\* risk_keywords, in the dict's insertion order
risk_keywords ==
    << [condition |-> "knee",
        risky_terms |-> <<"squat", "lunge", "leg press", "jump", "run", "plyo">>],
       [condition |-> "back",
        risky_terms |-> <<"deadlift", "good morning", "bent over", "back extension">>],
       [condition |-> "shoulder",
        risky_terms |-> <<"overhead press", "snatch", "handstand", "bench press">>],
       [condition |-> "wrist",
        risky_terms |-> <<"push-up", "handstand", "clean", "front rack">>] >>

\* the inner loop: some risky word of entry k occurs in the title or description
RiskyWordMatches(k, ex_title, ex_desc) ==
    \E j \in 1..Len(risk_keywords[k].risky_terms) :
        \/ Contains(risk_keywords[k].risky_terms[j], ex_title)
        \/ Contains(risk_keywords[k].risky_terms[j], ex_desc)

\* the outer loop: index of the first condition the user has that flags the
\* exercise, 0 when none does
FirstRiskCondition(exercise, conditions) ==
    LET ex_title == Lower(exercise.Title)
        ex_desc  == Lower(exercise.Desc)
        hits == {k \in 1..Len(risk_keywords) :
                    /\ Contains(risk_keywords[k].condition, conditions)
                    /\ RiskyWordMatches(k, ex_title, ex_desc)}
    IN  IF hits = {} THEN 0 ELSE CHOOSE k \in hits : \A m \in hits : k <= m

\* the additional rule: high impact for knee issues
PlyometricForKnee(exercise, conditions) ==
    Contains("knee", conditions) /\ Lower(exercise.Type) = "plyometrics"

\* is_unsafe without the keyword loops: only the plyometrics rule flags
is_unsafe_PlyometricsOnly(exercise, conditions) ==
    PlyometricForKnee(exercise, conditions)

\* is_unsafe at the end of one loop iteration
is_unsafe(exercise, conditions) ==
    FirstRiskCondition(exercise, conditions) # 0 \/ PlyometricForKnee(exercise, conditions)

\* the warnings one loop iteration appends
ExerciseWarnings(exercise, conditions) ==
    LET k == FirstRiskCondition(exercise, conditions)
    IN  (IF k # 0
         THEN << [kind |-> "removed", title |-> Lower(exercise.Title),
                  condition |-> risk_keywords[k].condition] >>
         ELSE << >>)
        \o
        (IF PlyometricForKnee(exercise, conditions)
         THEN << [kind |-> "removed plyometric", title |-> Lower(exercise.Title),
                  condition |-> "knee"] >>
         ELSE << >>)

RECURSIVE SafeExercises(_, _)
SafeExercises(exercises_list, conditions) ==
    IF exercises_list = << >> THEN << >>
    ELSE (IF is_unsafe(Head(exercises_list), conditions)
          THEN << >> ELSE << Head(exercises_list) >>)
         \o SafeExercises(Tail(exercises_list), conditions)

RECURSIVE LoopWarnings(_, _)
LoopWarnings(exercises_list, conditions) ==
    IF exercises_list = << >> THEN << >>
    ELSE ExerciseWarnings(Head(exercises_list), conditions)
         \o LoopWarnings(Tail(exercises_list), conditions)

OverfilterWarning == [kind |-> "OVERFILTER WARNING", title |-> "", condition |-> ""]

\* the over-filter floor without the floor: an all-flagged list comes back empty
filter_exercises_for_injuries_NoFloor(exercises_list, medical_conditions_str) ==
    IF medical_conditions_str = ""
    THEN [list |-> exercises_list, warnings |-> << >>]
    ELSE LET conditions == Lower(medical_conditions_str)
         IN  [list |-> SafeExercises(exercises_list, conditions),
              warnings |-> LoopWarnings(exercises_list, conditions)]

filter_exercises_for_injuries(exercises_list, medical_conditions_str) ==
    IF medical_conditions_str = ""
    THEN [list |-> exercises_list, warnings |-> << >>]
    ELSE LET conditions == Lower(medical_conditions_str)
             safe_exercises == SafeExercises(exercises_list, conditions)
             warnings == LoopWarnings(exercises_list, conditions)
         IN  IF safe_exercises = << >> /\ exercises_list # << >>
             THEN [list |-> << exercises_list[1] >>,
                   warnings |-> Append(warnings, OverfilterWarning)]
             ELSE [list |-> safe_exercises, warnings |-> warnings]

(***************************************************************************)
(* ContentBasedRecommender: candidate retrieval for exercises              *)
(***************************************************************************)

synonyms ==
    [chest     |-> <<"Chest", "Pectorals", "Upper Body", "Pecs">>,
     legs      |-> <<"Legs", "Quadriceps", "Hamstrings", "Calves", "Lower Body",
                     "Quads", "Glutes">>,
     back      |-> <<"Back", "Lats", "Lower Back", "Traps">>,
     arms      |-> <<"Arms", "Biceps", "Triceps">>,
     abs       |-> <<"Abs", "Core", "Abdominals", "Six Pack">>,
     shoulders |-> <<"Shoulders", "Deltoids">>,
     core      |-> <<"Abs", "Core", "Abdominals", "Six Pack">>]

\* search_terms of _fetch_candidates, as a set: the target, its synonyms, and
\* the whole group of every key that lists the target.  The table never yields
\* more than 10 distinct terms, so the [:10] cut keeps them all.
search_terms(target) ==
    IF target = "" \/ target = "General" THEN {}
    ELSE LET target_lower == Lower(target)
             direct  == IF target_lower \in DOMAIN synonyms
                        THEN Range(synonyms[target_lower]) ELSE {}
             keys    == {k \in DOMAIN synonyms :
                            target_lower \in {Lower(v) : v \in Range(synonyms[k])}}
             reverse == UNION {Range(synonyms[k]) \cup {TitleCase(k)} : k \in keys}
         IN  {TitleCase(t) : t \in {target} \cup direct \cup reverse}

\* searchable_text of an exercise document
ExerciseSearchableText(d) ==
    Norm(d.Title) \o " " \o Norm(d.Equipment) \o " " \o Norm(d.Type) \o " " \o Norm(d.Desc)

\* any(bad in searchable_text for bad in clean_dislikes)
Disliked(text, clean_dislikes) ==
    \E i \in DOMAIN clean_dislikes : Contains(clean_dislikes[i], text)

\* .limit(50) on the queries of the recommender
QueryLimit == 50

\* the first loop of _fetch_candidates over the (Level, Bodypart) query;
\* clean_ignore_list is only tested for membership and is kept as a set
FetchExact(docs, level, terms, clean_ignore_list, clean_dislikes) ==
    LET inQuery(d) == d.Level = level /\ (terms = {} \/ d.Bodypart \in terms)
        kept(d) == /\ ~Disliked(ExerciseSearchableText(d), clean_dislikes)
                   /\ Norm(d.Title) # ""
                   /\ Norm(d.Title) \notin clean_ignore_list
    IN  SelectSeq(SelectSeq(docs, inQuery), kept)

\* the fallback loop of _fetch_candidates: any level, titles not yet collected
RECURSIVE FetchFallback(_, _, _, _)
FetchFallback(docs, candidates, clean_ignore_list, clean_dislikes) ==
    IF docs = << >> THEN candidates
    ELSE LET d == Head(docs)
             title == Norm(d.Title)
             current_titles == {Norm(candidates[i].Title) : i \in DOMAIN candidates}
             add == /\ ~Disliked(ExerciseSearchableText(d), clean_dislikes)
                    /\ title # ""
                    /\ title \notin clean_ignore_list
                    /\ title \notin current_titles
         IN  FetchFallback(Tail(docs),
                           IF add THEN Append(candidates, d) ELSE candidates,
                           clean_ignore_list, clean_dislikes)

_fetch_candidates(docs, level, target, clean_ignore_list, clean_dislikes, min_count) ==
    LET terms == search_terms(target)
        candidates == FetchExact(docs, level, terms, clean_ignore_list, clean_dislikes)
        inBodypart(d) == d.Bodypart \in terms
    IN  IF Len(candidates) < min_count /\ terms # {}
        THEN FetchFallback(Take(SelectSeq(docs, inBodypart), QueryLimit),
                           candidates, clean_ignore_list, clean_dislikes)
        ELSE candidates

(***************************************************************************)
(* ContentBasedRecommender._get_fitness_recs: the candidate pool           *)
(***************************************************************************)

search_levels(user_level) ==
    IF user_level = "Beginner" THEN <<"Beginner", "Intermediate", "Advanced">>
    ELSE IF user_level = "Advanced" THEN <<"Advanced", "Intermediate", "Beginner">>
    ELSE <<"Intermediate", "Beginner", "Advanced">>

bodyweight_equipment == {"body only", "bodyweight", "body weight", "none", "other", ""}

\* AddLevelCands without the no-equipment filter
RECURSIVE AddLevelCands_NoEquipmentFilter(_, _, _)
AddLevelCands_NoEquipmentFilter(level_cands, pool, no_equipment) ==
    IF level_cands = << >> THEN pool
    ELSE LET cand == Head(level_cands)
             title_norm == Norm(cand.Title)
             add == /\ title_norm # ""
                    /\ title_norm \notin pool.seen_titles
         IN  AddLevelCands_NoEquipmentFilter(Tail(level_cands),
                           IF add
                           THEN [candidates |-> Append(pool.candidates, cand),
                                 seen_titles |-> pool.seen_titles \cup {title_norm}]
                           ELSE pool,
                           no_equipment)

\* the loop over level_cands; pool is [candidates, seen_titles]
RECURSIVE AddLevelCands(_, _, _)
AddLevelCands(level_cands, pool, no_equipment) ==
    IF level_cands = << >> THEN pool
    ELSE LET cand == Head(level_cands)
             title_norm == Norm(cand.Title)
             equipment == Norm(cand.Equipment)
             add == /\ ~(no_equipment /\ equipment \notin bodyweight_equipment)
                    /\ title_norm # ""
                    /\ title_norm \notin pool.seen_titles
         IN  AddLevelCands(Tail(level_cands),
                           IF add
                           THEN [candidates |-> Append(pool.candidates, cand),
                                 seen_titles |-> pool.seen_titles \cup {title_norm}]
                           ELSE pool,
                           no_equipment)

\* the loop over search_levels, left as soon as top_k * 5 candidates are held
RECURSIVE LevelCascade(_, _, _, _, _, _, _)
LevelCascade(docs, levels, pool, target, dislikes, no_equipment, top_k) ==
    IF levels = << >> THEN pool
    ELSE LET level_cands == _fetch_candidates(docs, Head(levels), target,
                                              pool.seen_titles, dislikes, top_k * 3)
             next == AddLevelCands(level_cands, pool, no_equipment)
         IN  IF Len(next.candidates) >= top_k * 5 THEN next
             ELSE LevelCascade(docs, Tail(levels), next, target, dislikes,
                               no_equipment, top_k)

\* CatalogScan without the seen_titles test
RECURSIVE CatalogScan_NoSeenCheck(_, _, _, _, _)
CatalogScan_NoSeenCheck(all_docs, pool, dislikes, no_equipment, top_k) ==
    IF all_docs = << >> THEN pool
    ELSE LET d == Head(all_docs)
             title_norm == Norm(d.Title)
             equipment == Norm(d.Equipment)
             add == /\ ~(no_equipment /\ equipment \notin bodyweight_equipment)
                    /\ ~Disliked(ExerciseSearchableText(d), dislikes)
             next == IF add
                     THEN [candidates |-> Append(pool.candidates, d),
                           seen_titles |-> pool.seen_titles \cup {title_norm}]
                     ELSE pool
         IN  IF add /\ Len(next.candidates) >= top_k + 5 THEN next
             ELSE CatalogScan_NoSeenCheck(Tail(all_docs), next, dislikes,
                                          no_equipment, top_k)

\* the loop over the shuffled catalog, left as soon as top_k + 5 candidates
\* are held
RECURSIVE CatalogScan(_, _, _, _, _)
CatalogScan(all_docs, pool, dislikes, no_equipment, top_k) ==
    IF all_docs = << >> THEN pool
    ELSE LET d == Head(all_docs)
             title_norm == Norm(d.Title)
             equipment == Norm(d.Equipment)
             add == /\ ~(no_equipment /\ equipment \notin bodyweight_equipment)
                    /\ ~Disliked(ExerciseSearchableText(d), dislikes)
                    /\ title_norm \notin pool.seen_titles
             next == IF add
                     THEN [candidates |-> Append(pool.candidates, d),
                           seen_titles |-> pool.seen_titles \cup {title_norm}]
                     ELSE pool
         IN  IF add /\ Len(next.candidates) >= top_k + 5 THEN next
             ELSE CatalogScan(Tail(all_docs), next, dislikes, no_equipment, top_k)

\* the permutations of 1..n, and the orders random.shuffle can leave a list in
Perms(n) == {f \in [1..n -> 1..n] : \A i, j \in 1..n : f[i] = f[j] => i = j}

Shuffles(seq) == {[i \in 1..Len(seq) |-> seq[f[i]]] : f \in Perms(Len(seq))}

\* the tiers of _get_fitness_recs: every pool the call can end up with
FitnessCandidates(docs, user_profile, target, clean_ignore_list, top_k, dislikes, no_equipment) ==
    LET user_level == Get(user_profile, "fitness_level", "Intermediate")
        start == [candidates |-> << >>, seen_titles |-> Range(clean_ignore_list)]
        cascade == LevelCascade(docs, search_levels(user_level), start, target,
                                dislikes, no_equipment, top_k)
    IN  IF Len(cascade.candidates) < top_k
        THEN {CatalogScan(all_docs, cascade, dislikes, no_equipment, top_k).candidates :
                 all_docs \in Shuffles(Take(docs, QueryLimit))}
        ELSE {cascade.candidates}

(***************************************************************************)
(* ContentBasedRecommender: scoring, ranking and the protocol annotation   *)
(*                                                                         *)
(* Effectiveness and preference are kept in thirtieths (30 is 1.0, 12 is   *)
(* 0.4, 9 is 0.3, one match is 10) and the final score in three-hundredths *)
(* (7 * effectiveness + 3 * preference), which is exact for these values.  *)
(* The TF-IDF cosine similarity of a candidate is not computed: it is any  *)
(* value of the set cosine_levels handed to the ranking.                   *)
(***************************************************************************)

GOLD_STANDARDS ==
    << [goal_key |-> "Muscle Gain",
        keywords |-> <<"Squats", "Deadlifts", "Bench Press", "High Protein",
                       "Protein", "Strength", "Hypertrophy">>],
       [goal_key |-> "Weight Loss",
        keywords |-> <<"HIIT", "Burpees", "Lean Protein", "Fiber-rich", "Cardio",
                       "Metabolic", "Calorie Burn">>],
       [goal_key |-> "Weight Gain",
        keywords |-> <<"High Protein", "Bulking", "Compound lifts">>],
       [goal_key |-> "Maintenance",
        keywords |-> <<"Balanced", "General", "Steady state">>] >>

\* gold_standards: the keyword lists of every goal key that occurs in the goal
RECURSIVE GoldFrom(_, _)
GoldFrom(k, user_goal) ==
    IF k > Len(GOLD_STANDARDS) THEN << >>
    ELSE (IF Contains(GOLD_STANDARDS[k].goal_key, user_goal)
          THEN GOLD_STANDARDS[k].keywords ELSE << >>)
         \o GoldFrom(k + 1, user_goal)

gold_standards(user_profile) == GoldFrom(1, Get(user_profile, "goal", "Maintenance"))

\* sum(1 for ks in gold_standards if ks.lower() in combined_text)
MatchCount(gold, combined_text) ==
    Cardinality({i \in DOMAIN gold : Contains(Lower(gold[i]), combined_text)})

\* effectiveness without the second min(1.0, ...)
Effectiveness_NoCap(match_count) ==
    LET base == Min(30, 10 * match_count)
    IN  IF match_count > 0 THEN base + 12 ELSE base

\* min(1.0, match_count / 3.0), plus 0.4 when something matched, capped at 1.0
Effectiveness(match_count) ==
    LET base == Min(30, 10 * match_count)
    IN  Min(30, IF match_count > 0 THEN base + 12 ELSE base)

\* str.rstrip('s')
RECURSIVE RStripS(_)
RStripS(s) ==
    IF s # "" /\ SubSeq(s, Len(s), Len(s)) = "s"
    THEN RStripS(SubSeq(s, 1, Len(s) - 1))
    ELSE s

\* has_preference_match over the given text fields
HasPreferenceMatch(likes, fields) ==
    \E i \in DOMAIN likes : \E f \in fields :
        Contains(likes[i], f) \/ Contains(RStripS(likes[i]), f)

\* min(1.0, cosine_score + preference_boost)
UserPref_NoBoost(cosine_score, has_preference_match) ==
    Min(30, cosine_score)

UserPref(cosine_score, has_preference_match) ==
    Min(30, cosine_score + (IF has_preference_match THEN 9 ELSE 0))

\* (effectiveness * 0.7) + (user_pref * 0.3)
FinalScore(effectiveness, user_pref) == 7 * effectiveness + 3 * user_pref

\* effectiveness of an exercise row
FitnessEffectiveness(row, user_profile) ==
    LET combined_text == Lower(row.Title) \o " " \o Lower(row.Desc) \o " "
                         \o Lower(row.Bodypart)
    IN  Effectiveness(MatchCount(gold_standards(user_profile), combined_text))

\* user_pref of an exercise row
FitnessPreference(row, likes, cosine_score) ==
    UserPref(cosine_score,
             HasPreferenceMatch(likes, {Lower(row.Title), Lower(row.Equipment)}))

FitnessScore(row, user_profile, likes, cosine_score) ==
    FinalScore(FitnessEffectiveness(row, user_profile),
               FitnessPreference(row, likes, cosine_score))

\* df.sort_values(by='score', ascending=False): the rows in an order of
\* non-increasing score.  The default sort kind is not stable, so rows of
\* equal score come out in any order.
SortedOrders(scores) ==
    {f \in Perms(Len(scores)) :
        \A i, j \in 1..Len(scores) : i < j => scores[f[i]] >= scores[f[j]]}

_get_smart_protocol(user_profile, exercise_level) ==
    LET goal == Get(user_profile, "goal", "Maintenance")
        sets == IF exercise_level = "Beginner" THEN "2-3"
                ELSE IF exercise_level = "Intermediate" THEN "3-4"
                ELSE IF exercise_level = "Advanced" THEN "4-5"
                ELSE "3"
    IN  IF Contains("Muscle", goal)
        THEN [sets |-> sets, reps |-> "8-12", rest |-> "60s"]
        ELSE IF Contains("Weight", goal) \/ Contains("Loss", goal)
        THEN [sets |-> sets, reps |-> "12-15", rest |-> "30-45s"]
        ELSE [sets |-> sets, reps |-> "10-12", rest |-> "60s"]

\* the results loop: the first top_k rows, each with its protocol
FitnessResults(rows, user_profile, top_k) ==
    [i \in 1..Min(Len(rows), top_k) |->
        rows[i] @@ ("protocol" :> _get_smart_protocol(user_profile, rows[i].Level))]

\* df['score'] = final_scores, then sort_values: the rows with their scores,
\* in an order sort_values can leave them in
ScoredRows(candidates, scores) ==
    {[i \in DOMAIN candidates |-> candidates[f[i]] @@ ("score" :> scores[f[i]])] :
        f \in SortedOrders(scores)}

\* the rows of df after the scoring block: scored and sorted, or, when the
\* TF-IDF step raised, unscored and in retrieval order; final_score[i][c] is
\* the final score of candidate i when its cosine similarity is c
RankedRows(candidates, final_score, cosine_levels) ==
    {candidates} \cup
    UNION {ScoredRows(candidates,
                      [i \in DOMAIN candidates |-> final_score[i][cosine[i]]]) :
              cosine \in [DOMAIN candidates -> cosine_levels]}

\* _get_fitness_recs: every list the call can return
_get_fitness_recs(docs, user_profile, target, clean_ignore_list, top_k, likes, dislikes, no_equipment, cosine_levels) ==
    LET score(candidates) ==
            [i \in DOMAIN candidates |-> [c \in cosine_levels |->
                FitnessScore(candidates[i], user_profile, likes, c)]]
    IN  UNION {IF candidates = << >> THEN {<< >>}
               ELSE {FitnessResults(rows, user_profile, top_k) :
                        rows \in RankedRows(candidates, score(candidates),
                                            cosine_levels)} :
                  candidates \in FitnessCandidates(docs, user_profile, target,
                                                   clean_ignore_list, top_k,
                                                   dislikes, no_equipment)}

(***************************************************************************)
(* ContentBasedRecommender._get_nutrition_recs                             *)
(***************************************************************************)

meal_type_map ==
    [breakfast |-> "Breakfast", lunch |-> "Lunch", dinner |-> "Dinner",
     snack |-> "Snack"]

\* the limits of the two unfiltered nutrition queries
ProteinQueryLimit == 50
NutritionScanLimit == 200

\* a range query streams in the order of the filtered field
RECURSIVE OrderByProtein(_)
OrderByProtein(items) ==
    IF items = << >> THEN << >>
    ELSE LET least == CHOOSE i \in DOMAIN items :
                          \A j \in DOMAIN items :
                              \/ items[i].Protein < items[j].Protein
                              \/ items[i].Protein = items[j].Protein /\ i <= j
             rest == [k \in 1..(Len(items) - 1) |->
                         IF k < least THEN items[k] ELSE items[k + 1]]
         IN  << items[least] >> \o OrderByProtein(rest)

\* the query chosen from the target and the preference, streamed
NutritionQuery(docs, target, preference) ==
    LET meal_target ==
            IF target # "" /\ target \notin {"General", "Food", "Meal"}
               /\ Lower(target) \in DOMAIN meal_type_map
            THEN meal_type_map[Lower(target)] ELSE ""
        isMeal(d) == d.Meal_Type = meal_target
        highProtein(d) == d.Protein >= 20
    IN  IF meal_target # "" THEN SelectSeq(docs, isMeal)
        ELSE IF Contains("protein", preference)
        THEN Take(OrderByProtein(SelectSeq(docs, highProtein)), ProteinQueryLimit)
        ELSE Take(docs, NutritionScanLimit)

\* any(bad in name for bad in dislikes)
FoodDisliked(name, dislikes) == Disliked(name, dislikes)

\* the candidate loop, and the unfiltered fallback when it keeps nothing
NutritionCandidates(items, clean_ignore_list, dislikes, preference, category) ==
    LET kept(item) ==
            LET name == Norm(item.Name)
            IN  /\ name \notin Range(clean_ignore_list)
                /\ ~FoodDisliked(name, dislikes)
                /\ (Contains("chicken", preference) \/ Contains("chicken", category))
                       => Contains("chicken", name)
                /\ ~(/\ Contains("vegetarian", preference)
                     /\ \E x \in {"chicken", "beef", "pork", "fish"} : Contains(x, name))
        notIgnored(item) == Norm(item.Name) \notin Range(clean_ignore_list)
        candidates == SelectSeq(items, kept)
    IN  IF candidates = << >> THEN SelectSeq(items, notIgnored) ELSE candidates

\* NutritionEffectiveness without the two macro checks
NutritionEffectiveness_KeywordsOnly(row, user_profile) ==
    Effectiveness(MatchCount(gold_standards(user_profile),
                             Lower(row.Name) \o " " \o Lower(row.Category)))

\* effectiveness of a food row
NutritionEffectiveness(row, user_profile) ==
    LET cat == Lower(row.Category)
        combined_text == Lower(row.Name) \o " " \o cat
        gold == gold_standards(user_profile)
        match_count ==
            MatchCount(gold, combined_text)
            + (IF "High Protein" \in Range(gold) /\ row.Protein > 20 THEN 2 ELSE 0)
            + (IF "Fiber-rich" \in Range(gold) /\ Contains("Salad", cat) THEN 1 ELSE 0)
    IN  Effectiveness(match_count)

\* user_pref of a food row
NutritionPreference(row, likes, cosine_score) ==
    UserPref(cosine_score, HasPreferenceMatch(likes, {Lower(row.Name)}))

NutritionScore(row, user_profile, likes, cosine_score) ==
    FinalScore(NutritionEffectiveness(row, user_profile),
               NutritionPreference(row, likes, cosine_score))

\* _get_nutrition_recs: every list the call can return
_get_nutrition_recs(docs, user_profile, target, clean_ignore_list, extra_entities, top_k, likes, dislikes, cosine_levels) ==
    LET preference == Lower(Get(extra_entities, "preference", ""))
        category == Lower(Get(extra_entities, "category", ""))
        items == NutritionQuery(docs, target, preference)
        candidates == NutritionCandidates(items, clean_ignore_list, dislikes,
                                          preference, category)
        score == [i \in DOMAIN candidates |-> [c \in cosine_levels |->
                    NutritionScore(candidates[i], user_profile, likes, c)]]
    IN  IF items = << >> \/ candidates = << >> THEN {<< >>}
        ELSE {Take(rows, top_k) : rows \in RankedRows(candidates, score, cosine_levels)}

(***************************************************************************)
(* ContentBasedRecommender.get_recommendations                             *)
(***************************************************************************)

\* [str(x).strip().lower() for x in xs if x]
RECURSIVE CleanList(_)
CleanList(xs) ==
    IF xs = << >> THEN << >>
    ELSE (IF Head(xs) # "" THEN << Norm(Head(xs)) >> ELSE << >>) \o CleanList(Tail(xs))

FitnessIntents == {"fitness_request", "fitness_variation", "fitness"}
NutritionIntents == {"nutrition_request", "nutrition_variation", "nutrition", "diet",
                     "food"}

\* every list the call can return; a Firestore call that raises is caught by
\* the except arm of the two helpers, which return []
get_recommendations(exercises, foods, user_profile, intent, target, ignore_list, extra_entities, top_k, likes, dislikes, no_equipment, cosine_levels) ==
    LET titled == IF target # "" THEN TitleCase(target) ELSE target
        clean_ignore_list == CleanList(ignore_list)
        clean_likes == CleanList(likes)
        clean_dislikes == CleanList(dislikes)
    IN  IF intent \in FitnessIntents
        THEN {<< >>} \cup
             _get_fitness_recs(exercises, user_profile, titled, clean_ignore_list,
                               top_k, clean_likes, clean_dislikes, no_equipment,
                               cosine_levels)
        ELSE IF intent \in NutritionIntents
        THEN {<< >>} \cup
             _get_nutrition_recs(foods, user_profile, titled, clean_ignore_list,
                                 extra_entities, top_k, clean_likes, clean_dislikes,
                                 cosine_levels)
        ELSE {<< >>}

(***************************************************************************)
(* SimpleMemory                                                            *)
(***************************************************************************)

\* limit of get_recent_items
RecentLimit == 20

\* the titles of the newest RecentLimit entries of the category, newest first;
\* the collection is kept in timestamp order
get_recent_items(log, category) ==
    LET inCategory(e) == e.category = category
        matching == SelectSeq(log, inCategory)
        n == Len(matching)
    IN  [i \in 1..Min(n, RecentLimit) |-> matching[n + 1 - i].title]

log_interaction_Skip(log, item_title, category) == log

log_interaction(log, item_title, category) ==
    Append(log, [title |-> item_title, category |-> category, timestamp |-> now])

(***************************************************************************)
(* chat_endpoint (app.py)                                                  *)
(***************************************************************************)

health_intents_RequestsOnly == {"fitness_request", "nutrition_request"}

health_intents == {"fitness_request", "fitness_variation", "nutrition_request",
                   "nutrition_variation", "explain_exercise", "nutrition_recipe"}

text_intents == {"explain_exercise", "general_chat", "nutrition_options",
                 "out_of_scope", "add_preference", "add_dislike",
                 "clear_preferences", "health_inquiry"}

junk_keywords == {"ketchup", "mayonnaise", "syrup", "soda", "candy", "chips"}

\* top_k of both get_recommendations calls
ChatTopK == 3

\* list.remove(x)
RECURSIVE RemoveFirst(_, _)
RemoveFirst(xs, x) ==
    IF xs = << >> THEN << >>
    ELSE IF Head(xs) = x THEN Tail(xs)
    ELSE << Head(xs) >> \o RemoveFirst(Tail(xs), x)

\* the loop over pref_list; prefs is [likes, dislikes]
RECURSIVE ProcessPreferences(_, _)
ProcessPreferences(pref_list, prefs) ==
    IF pref_list = << >> THEN prefs
    ELSE LET clean_item == Strip(Lower(Head(pref_list)))
             likes == IF clean_item # "" /\ clean_item \notin Range(prefs.likes)
                      THEN Append(prefs.likes, clean_item) ELSE prefs.likes
             dislikes == IF clean_item \in Range(prefs.dislikes)
                         THEN RemoveFirst(prefs.dislikes, clean_item)
                         ELSE prefs.dislikes
         IN  ProcessPreferences(Tail(pref_list),
                                [likes |-> likes, dislikes |-> dislikes])

\* the loop over dislike_list without the removal from likes
RECURSIVE ProcessDislikes_NoRemove(_, _)
ProcessDislikes_NoRemove(dislike_list, prefs) ==
    IF dislike_list = << >> THEN prefs
    ELSE LET clean_item == Strip(Lower(Head(dislike_list)))
             dislikes == IF clean_item # "" /\ clean_item \notin Range(prefs.dislikes)
                         THEN Append(prefs.dislikes, clean_item) ELSE prefs.dislikes
         IN  ProcessDislikes_NoRemove(Tail(dislike_list),
                                      [likes |-> prefs.likes, dislikes |-> dislikes])

\* the loop over dislike_list
RECURSIVE ProcessDislikes(_, _)
ProcessDislikes(dislike_list, prefs) ==
    IF dislike_list = << >> THEN prefs
    ELSE LET clean_item == Strip(Lower(Head(dislike_list)))
             dislikes == IF clean_item # "" /\ clean_item \notin Range(prefs.dislikes)
                         THEN Append(prefs.dislikes, clean_item) ELSE prefs.dislikes
             likes == IF clean_item \in Range(prefs.likes)
                      THEN RemoveFirst(prefs.likes, clean_item)
                      ELSE prefs.likes
         IN  ProcessDislikes(Tail(dislike_list),
                             [likes |-> likes, dislikes |-> dislikes])

\* has_weight and has_height and has_goal; a field that is None or '' in the
\* document is a field the profile does not have
ProfileComplete(profile) ==
    \A k \in {"weight", "height", "goal"} : k \in DOMAIN profile

\* list(set(seen_titles + recent_items)), in some order
RECURSIVE SetToSeq(_)
SetToSeq(S) ==
    IF S = {} THEN << >>
    ELSE LET x == CHOOSE y \in S : TRUE IN << x >> \o SetToSeq(S \ {x})

\* the junk filter of the nutrition branch
RECURSIVE FilterJunk(_, _)
FilterJunk(recs, final_target) ==
    IF recs = << >> THEN << >>
    ELSE LET name == Lower(Head(recs).Name)
             junk == /\ \E j \in junk_keywords : Contains(j, name)
                     /\ ~Contains("junk", Lower(final_target))
         IN  (IF junk THEN << >> ELSE << Head(recs) >>)
             \o FilterJunk(Tail(recs), final_target)

\* the weekly split chosen from the goal: day, focus and targets
weekly_split(goal) ==
    IF Contains("Muscle", goal) \/ Contains("Strength", goal)
    THEN << [day |-> "Monday", focus |-> "Push (Chest/Tri)", targets |-> <<"Chest", "Triceps">>],
            [day |-> "Tuesday", focus |-> "Pull (Back/Bi)", targets |-> <<"Back", "Biceps">>],
            [day |-> "Wednesday", focus |-> "Legs & Core", targets |-> <<"Legs", "Core">>],
            [day |-> "Thursday", focus |-> "Push (Shoulders)", targets |-> <<"Shoulder", "Chest">>],
            [day |-> "Friday", focus |-> "Pull & Arms", targets |-> <<"Back", "Biceps", "Triceps">>],
            [day |-> "Saturday", focus |-> "Rest", targets |-> << >>],
            [day |-> "Sunday", focus |-> "Rest", targets |-> << >>] >>
    ELSE IF Contains("Loss", goal)
    THEN << [day |-> "Monday", focus |-> "Full Body HIIT", targets |-> <<"Full Body", "Cardio">>],
            [day |-> "Tuesday", focus |-> "Upper Body", targets |-> <<"Chest", "Back", "Shoulder">>],
            [day |-> "Wednesday", focus |-> "Active Recovery", targets |-> << >>],
            [day |-> "Thursday", focus |-> "Lower Body", targets |-> <<"Legs", "Core">>],
            [day |-> "Friday", focus |-> "Full Body Circuit", targets |-> <<"Full Body">>],
            [day |-> "Saturday", focus |-> "Cardio/HIIT", targets |-> <<"Cardio">>],
            [day |-> "Sunday", focus |-> "Rest", targets |-> << >>] >>
    ELSE << [day |-> "Monday", focus |-> "Upper Body", targets |-> <<"Chest", "Back">>],
            [day |-> "Tuesday", focus |-> "Lower Body", targets |-> <<"Legs">>],
            [day |-> "Wednesday", focus |-> "Rest", targets |-> << >>],
            [day |-> "Thursday", focus |-> "Push Day", targets |-> <<"Chest", "Shoulder", "Triceps">>],
            [day |-> "Friday", focus |-> "Pull Day", targets |-> <<"Back", "Biceps">>],
            [day |-> "Saturday", focus |-> "Full Body", targets |-> <<"Full Body">>],
            [day |-> "Sunday", focus |-> "Rest", targets |-> << >>] >>

\* the exercises of one day: two documents of collection Fitness per target
\* for the first two targets, a placeholder per target when the query raises
RECURSIVE DayExercises(_, _, _, _)
DayExercises(targets, level, fitness_docs, query_raises) ==
    IF targets = << >> THEN << >>
    ELSE LET matches(d) == d.Primary_Muscle = Head(targets) /\ d.Level = level
             docs == Take(SelectSeq(fitness_docs, matches), 2)
         IN  (IF query_raises THEN << Head(targets) \o " Exercise" >>
              ELSE [i \in DOMAIN docs |-> docs[i].Exercise_Name])
             \o DayExercises(Tail(targets), level, fitness_docs, query_raises)

\* one row of the table: placeholders when no exercise was found, four
\* exercises at most, none on a day without targets
ScheduleRow(day_plan, level, fitness_docs, query_raises) ==
    LET exercises == DayExercises(Take(day_plan.targets, 2), level, fitness_docs,
                                  query_raises)
        shown == IF day_plan.targets = << >> THEN << >>
                 ELSE IF exercises = << >>
                 THEN [i \in DOMAIN Take(day_plan.targets, 3) |->
                          day_plan.targets[i] \o " workout"]
                 ELSE Take(exercises, 4)
    IN  [day |-> day_plan.day, focus |-> day_plan.focus, exercises |-> shown]

\* the rows of the weekly workout table
WorkoutTable(profile, fitness_docs, query_raises) ==
    LET split == weekly_split(Get(profile, "goal", "General Fitness"))
        level == Get(profile, "fitness_level", "Beginner")
    IN  [i \in DOMAIN split |-> ScheduleRow(split[i], level, fitness_docs, query_raises)]

\* d[k] = v on a dict
Put(d, k, v) == (k :> v) @@ d

\* the JSON reply with what the handler did to produce it: session_data is
\* the session received with the message, response_type is
\* the journey-log type of the reply, admission the outcome of
\* validate_request when it ran, injury_filter whether
\* filter_exercises_for_injuries ran on raw_recs with the profile's
\* conditions, likes and dislikes the handler's lists after the entities were
\* processed
ChatReply(message, analysis, session_data, response_type, intent, text, items, schedule, raw_recs, admission, injury_filter, profile, likes, dislikes, no_equipment, ignore_list) ==
    [message |-> message, analysis |-> analysis, session_data |-> session_data,
     response_type |-> response_type,
     intent |-> intent, text |-> text, items |-> items, schedule |-> schedule,
     raw_recs |-> raw_recs, admission |-> admission,
     injury_filter |-> injury_filter, profile |-> profile, likes |-> likes,
     dislikes |-> dislikes, no_equipment |-> no_equipment,
     ignore_list |-> ignore_list]

\* the texts a reply shows besides safety messages
TextIncomplete == "Complete Your Profile First"
TextGenerated == "generated"
TextCards == "cards"
TextTable == "Your Weekly Workout Schedule"
TextError == "I'm having a brief brain freeze. Try again?"

\* the logs after log_interaction ran for each of the titles, and whether
\* every write went through: a write that raises is swallowed and leaves the
\* collection as it was
RECURSIVE LoggedInteractions(_, _, _)
LoggedInteractions(log, titles, category) ==
    IF titles = << >> THEN {[log |-> log, ok |-> TRUE]}
    ELSE {[l EXCEPT !.ok = FALSE] :
             l \in LoggedInteractions(log, Tail(titles), category)}
         \cup LoggedInteractions(log_interaction(log, Head(titles), category),
                                 Tail(titles), category)

\* the replies of the handler once the profile has been read: each outcome
\* is the reply, the session_data returned with it and the recency log
ChatWithProfile(message, analysis, session_data, profile, log, exercises, foods, fitness_docs, cosine_levels) ==
    LET intent == Get(analysis, "intent", "general_chat")
        entities == Get(analysis, "entities", << >>)
        new_target == Get(entities, "target", "")
        pref_item == Get(entities, "preference", "")
        pref_list == Get(entities, "preferences", << >>)
                     \o (IF pref_item # "" THEN << pref_item >> ELSE << >>)
        dislike_list == Get(entities, "dislikes", << >>)
        prefs == ProcessDislikes(dislike_list,
                    ProcessPreferences(pref_list,
                        [likes |-> Get(session_data, "likes", << >>),
                         dislikes |-> Get(session_data, "dislikes", << >>)]))
        likes == IF intent = "clear_preferences" THEN << >> ELSE prefs.likes
        dislikes == IF intent = "clear_preferences" THEN << >> ELSE prefs.dislikes
        no_equipment == \/ Get(session_data, "no_equipment", FALSE)
                        \/ Get(entities, "no_equipment", FALSE)
        \* session_data shares its likes and dislikes lists with the loops
        \* when it has the keys
        sd_likes == IF "likes" \in DOMAIN session_data
                    THEN Put(session_data, "likes", prefs.likes) ELSE session_data
        sd_prefs == IF "dislikes" \in DOMAIN sd_likes
                    THEN Put(sd_likes, "dislikes", prefs.dislikes) ELSE sd_likes
        sd == IF Get(entities, "no_equipment", FALSE)
              THEN Put(sd_prefs, "no_equipment", TRUE) ELSE sd_prefs
        health == intent \in health_intents
        checked == validate_request(profile)
        \* validate_request runs for a health intent on a complete profile
        admission == IF ~health \/ ~ProfileComplete(profile) THEN "not_run"
                     ELSE IF checked.ok THEN "ok" ELSE "blocked"
        R(response_type, reply_intent, text, items, schedule, raw_recs, filtered,
          ignore_list) ==
            ChatReply(message, analysis, session_data, response_type, reply_intent,
                      text, items, schedule, raw_recs, admission, filtered, profile,
                      likes, dislikes, no_equipment, ignore_list)
        \* 5. context and memory setup
        variation == intent \in {"fitness_variation", "nutrition_variation"}
        request == intent \in {"fitness_request", "nutrition_request"}
        last0 == Get(session_data, "last_target", "")
        final_target == IF variation
                        THEN (IF last0 # "" THEN last0 ELSE "General")
                        ELSE (IF new_target # "" THEN new_target ELSE "General")
        seen_titles == IF request THEN << >> ELSE Get(session_data, "seen_titles", << >>)
        last_target == IF request THEN final_target ELSE last0
        category == IF Contains("fitness", intent) THEN "exercises"
                    ELSE IF Contains("nutrition", intent) THEN "foods" ELSE ""
        \* get_recent_items gives [] when the query raises
        recents == IF category = "" THEN {[items |-> << >>, ok |-> TRUE]}
                   ELSE {[items |-> get_recent_items(log, category), ok |-> TRUE],
                         [items |-> << >>, ok |-> FALSE]}
        \* the stages gone through before the branch on the intent
        checked_stages == IF health THEN <<"ProfileCheck">> ELSE << >>
        \* 7. session update
        Updated(seen) ==
            Put(Put(Put(Put(sd, "seen_titles", seen), "last_target", last_target),
                    "likes", likes), "dislikes", dislikes)
        Text(response_type, ignore_list, read_ok) ==
            [reply |-> R(response_type, intent, TextGenerated, << >>, << >>, << >>,
                         FALSE, ignore_list),
             session |-> Updated(seen_titles), log |-> log,
             stages |-> checked_stages \o <<"Done">>, memory_ok |-> read_ok]
        FitnessLogic(ignore_list, read_ok) ==
            UNION { LET filtered == filter_exercises_for_injuries(raw_recs,
                                        Get(profile, "medical_conditions", ""))
                        recs == filtered.list
                        titles == [i \in DOMAIN recs |-> recs[i].Title]
                    IN  IF recs # << >>
                        THEN { [reply |-> R("fitness_recommendation", intent,
                                            TextCards, recs, << >>, raw_recs, TRUE,
                                            ignore_list),
                                session |-> Updated(seen_titles \o titles),
                                log |-> l.log,
                                stages |-> checked_stages
                                  \o <<"Retrieve", "Rank", "InjuryFilter", "Record", "Done">>,
                                memory_ok |-> read_ok /\ l.ok] :
                               l \in LoggedInteractions(log, titles, "exercises") }
                        ELSE { [reply |-> R("fitness_fallback", intent,
                                            TextGenerated, << >>, << >>, raw_recs,
                                            TRUE, ignore_list),
                                session |-> Updated(seen_titles), log |-> log,
                                stages |-> checked_stages
                                  \o <<"Retrieve", "Rank", "InjuryFilter", "Done">>,
                                memory_ok |-> read_ok] } :
                    raw_recs \in get_recommendations(exercises, foods, profile,
                                    intent, final_target, ignore_list, << >>,
                                    ChatTopK, likes, dislikes, no_equipment,
                                    cosine_levels) }
        NutritionLogic(ignore_list, read_ok) ==
            UNION { LET filtered_recs == FilterJunk(recs, final_target)
                        names == [i \in DOMAIN filtered_recs |-> filtered_recs[i].Name]
                    IN  IF filtered_recs # << >>
                        THEN { [reply |-> R("nutrition_recommendation", intent,
                                            TextCards, filtered_recs, << >>, recs,
                                            FALSE, ignore_list),
                                session |-> Updated(seen_titles \o names),
                                log |-> l.log,
                                stages |-> checked_stages
                                  \o <<"Retrieve", "Rank", "Record", "Done">>,
                                memory_ok |-> read_ok /\ l.ok] :
                               l \in LoggedInteractions(log, names, "foods") }
                        ELSE { [reply |-> R("nutrition_fallback", intent,
                                            TextGenerated, << >>, << >>, recs,
                                            FALSE, ignore_list),
                                session |-> Updated(seen_titles), log |-> log,
                                stages |-> checked_stages
                                  \o <<"Retrieve", "Rank", "Done">>,
                                memory_ok |-> read_ok] } :
                    recs \in get_recommendations(exercises, foods, profile,
                                "nutrition_request", final_target, ignore_list,
                                ("preference" :> pref_item)
                                    @@ ("category" :> Get(entities, "category", "")),
                                ChatTopK, likes, dislikes, FALSE, cosine_levels) }
        Generate(ignore_list, read_ok) ==
            IF intent \in text_intents
            THEN {Text("text_response", ignore_list, read_ok)}
            ELSE IF intent \in {"fitness_request", "fitness_variation"}
            THEN FitnessLogic(ignore_list, read_ok)
            ELSE IF intent \in {"nutrition_request", "nutrition_variation"}
            THEN NutritionLogic(ignore_list, read_ok)
            ELSE {Text("fallback_response", ignore_list, read_ok)}
    IN  IF health /\ ~ProfileComplete(profile)
        THEN \* 3. profile completeness
             { [reply |-> R("profile_incomplete", "profile_incomplete",
                            TextIncomplete, << >>, << >>, << >>, FALSE, << >>),
                session |-> sd, log |-> log, stages |-> << >>,
                memory_ok |-> TRUE] }
        ELSE IF health /\ ~checked.ok
        THEN \* 4. safety check; the journey-log write of the block is not
             \* guarded, so a raise ends in the handler's except clause
             { [reply |-> R("safety_block", "safety_block", checked.msg, << >>,
                            << >>, << >>, FALSE, << >>),
                session |-> sd, log |-> log,
                stages |-> <<"ProfileCheck", "Blocked">>, memory_ok |-> TRUE],
               [reply |-> R("error", "", TextError, << >>, << >>, << >>, FALSE,
                            << >>),
                session |-> << >>, log |-> log,
                stages |-> <<"ProfileCheck", "Blocked">>, memory_ok |-> TRUE] }
        ELSE IF \/ intent = "workout_table"
                \/ Contains("timetable", Lower(message))
                \/ Contains("schedule", Lower(message))
        THEN \* 5. workout table
             { [reply |-> R("workout_table", "workout_table", TextTable, << >>,
                            WorkoutTable(profile, fitness_docs, query_raises),
                            << >>, FALSE, << >>),
                session |-> sd, log |-> log,
                stages |-> checked_stages \o <<"Done">>,
                memory_ok |-> TRUE] : query_raises \in BOOLEAN }
        ELSE UNION { { [out EXCEPT !.memory_ok = out.memory_ok /\ recent.ok] :
                          out \in Generate(SetToSeq(Range(seen_titles \o recent_items)),
                                           TRUE),
                          recent \in {r \in recents : r.items = recent_items} } :
                     recent_items \in {r.items : r \in recents} }

\* chat_endpoint on one message: get_user gives the stored profile, or None
\* when the read fails, and the handler goes on with an empty profile
chat_endpoint(message, analysis, session_data, user_doc, log, exercises, foods, fitness_docs, cosine_levels) ==
    UNION { ChatWithProfile(message, analysis, session_data, profile, log,
                            exercises, foods, fitness_docs, cosine_levels) :
            profile \in {user_doc, << >>} }

(***************************************************************************)
(* handle_feedback (app.py) with UserManager.add_favorite and              *)
(* UserManager.add_to_ignore_list                                          *)
(***************************************************************************)

\* str.replace(" ", "_")
RECURSIVE Underscored(_)
Underscored(s) ==
    IF s = "" THEN ""
    ELSE (IF Head(s) = " " THEN "_" ELSE Head(s)) \o Underscored(Tail(s))

\* item_data.get('Title') or item_data.get('Name')
ItemName(item_data) ==
    IF Get(item_data, "Title", "") # "" THEN item_data.Title
    ELSE Get(item_data, "Name", "")

\* add_favorite: the favorites collection afterwards and the value returned;
\* a raise is caught and gives False
add_favorite(favs, item_data, item_type) ==
    LET item_name == ItemName(item_data)
        fav_id == Underscored(Lower(item_name))
        doc == Put(Put(item_data, "saved_at", now), "item_type", item_type)
    IN  IF item_name = "" THEN {[favorites |-> favs, success |-> FALSE]}
        ELSE {[favorites |-> Put(favs, fav_id, doc @@ Get(favs, fav_id, << >>)),
               success |-> TRUE],
              [favorites |-> favs, success |-> FALSE]}

\* add_to_ignore_list: the user document afterwards and the value returned;
\* user_doc is << >> when the document does not exist
add_to_ignore_list(user_doc, item_name) ==
    LET ignore_list == Get(user_doc, "ignore_list", << >>)
        known == \E i \in DOMAIN ignore_list : Lower(ignore_list[i]) = Lower(item_name)
    IN  {[user_doc |-> IF known THEN user_doc
                       ELSE Put(user_doc, "ignore_list",
                                Append(ignore_list, Lower(item_name))),
          success |-> TRUE],
         [user_doc |-> user_doc, success |-> FALSE]}

\* POST /feedback: the stored state afterwards and the JSON response
handle_feedback(user_doc, favs, item_data, rating, item_type) ==
    IF item_data = << >> \/ rating = ""
    THEN {[user_doc |-> user_doc, favorites |-> favs,
           response |-> [success |-> FALSE, error |-> "Missing data", status |-> 400]]}
    ELSE IF rating = "good"
    THEN {[user_doc |-> user_doc, favorites |-> r.favorites,
           response |-> [success |-> r.success, message |-> "saved", status |-> 200]] :
             r \in add_favorite(favs, item_data, item_type)}
    ELSE {[user_doc |-> r.user_doc, favorites |-> favs,
           response |-> [success |-> r.success, message |-> "ignored", status |-> 200]] :
             r \in add_to_ignore_list(user_doc, ItemName(item_data))}

(***************************************************************************)
(* Specification SpecValidate: validate_request applied to every profile   *)
(* of a bounded family.                                                    *)
(***************************************************************************)

\* the parts of the state a specification does not use
IdleValidate ==
    /\ v_profile = << >>
    /\ v_result = [ok |-> TRUE, msg |-> MsgNone]
    /\ v_called = FALSE

IdleFilter ==
    /\ f_list = << >>
    /\ f_cond = ""
    /\ f_result = [list |-> << >>, warnings |-> << >>]
    /\ f_called = FALSE

IdleRecommender ==
    /\ fitness_exercises = << >>
    /\ nutrition_items = << >>
    /\ Fitness = << >>
    /\ r_args = << >>
    /\ r_result = << >>
    /\ r_called = FALSE

\* before the first message
NoReply == ChatReply("", << >>, << >>, "none", "", "", << >>, << >>, << >>, "not_run",
                     FALSE, << >>, << >>, << >>, FALSE, << >>)

\* no title replied yet, of either kind
NothingShown == [exercises |-> {}, foods |-> {}]

IdleScorer ==
    /\ s_candidates = << >>
    /\ s_cosine = << >>
    /\ s_args = << >>
    /\ s_rows = << >>
    /\ s_result = << >>
    /\ s_called = FALSE

IdleProgress ==
    /\ weight_logs = << >>
    /\ nutrition_logs = << >>
    /\ calls = << >>
    /\ n_ops = 0

IdleMemory ==
    /\ now = 0
    /\ m_recent = << >>
    /\ m_query = << >>
    /\ n_writes = 0

IdleChat ==
    /\ users_profile = << >>
    /\ recent_recommendations = << >>
    /\ session = << >>
    /\ reply = NoReply
    /\ n_msgs = 0
    /\ process = "starting"
    /\ memory_ok = TRUE
    /\ stages = << >>
    /\ favorites = << >>
    /\ feedback_reply = << >>
    /\ n_feedback = 0
    /\ shown_titles = NothingShown

AgeValues  == {16, 17, 18, 30}
BmiValues  == {150, 159, 160, 170, 184, 185, 220, 350, 351, 400}
GoalValues == {"Weight Loss", "Muscle Gain", "Weight Gain", "Maintenance",
               "General Fitness", "Cutting", "Muscle Gain and Fat Loss",
               "Muscle Gain and Cut"}

\* a dict with any subset of the keys age, bmi, goal
OptField(k, vals) == {<<>>} \cup {(k :> v) : v \in vals}

ValidateProfiles ==
    {a @@ b @@ g : a \in OptField("age", AgeValues),
                   b \in OptField("bmi", BmiValues),
                   g \in OptField("goal", GoalValues)}

InitValidate ==
    /\ v_profile \in ValidateProfiles
    /\ v_result = [ok |-> TRUE, msg |-> MsgNone]
    /\ v_called = FALSE
    /\ IdleFilter
    /\ IdleRecommender
    /\ IdleChat
    /\ IdleScorer
    /\ IdleMemory
    /\ IdleProgress

ValidateRequest ==
    /\ ~v_called
    /\ v_result' = validate_request(v_profile)
    /\ v_called' = TRUE
    /\ UNCHANGED <<v_profile, f_vars, db_vars, r_vars, chat_vars, s_vars, m_vars, p_vars>>

NextValidate == ValidateRequest

SpecValidate == InitValidate /\ [][NextValidate]_vars

(***************************************************************************)
(* Specification SpecFilter: filter_exercises_for_injuries applied to      *)
(* every list of at most MaxRanked ranked exercises and every conditions   *)
(* text of a bounded family.                                               *)
(***************************************************************************)

MaxRanked == 3

Exercise(title, bodypart, level, equipment, type, desc) ==
    [Title |-> title, Bodypart |-> bodypart, Level |-> level,
     Equipment |-> equipment, Type |-> type, Desc |-> desc]

FilterExercises ==
    { Exercise("Barbell Squat", "Quadriceps", "Beginner", "Barbell", "Strength",
               "Lower the hips"),
      Exercise("Box Drill", "Legs", "Intermediate", "Other", "Plyometrics",
               "Step quickly"),
      Exercise("Crunch", "Abdominals", "Beginner", "Body Only", "Strength",
               "Curl up"),
      Exercise("Plank", "Abdominals", "Beginner", "Body Only", "Strength",
               "Hold steady"),
      Exercise("Romanian Deadlift", "Hamstrings", "Advanced", "Barbell", "Strength",
               "Hinge at the hips"),
      Exercise("Wall Sit", "Quadriceps", "Beginner", "Body Only", "Strength",
               "Hold a squat position") }

FilterConditions == {"", "Knee pain", "lower back", "knee and back", "asthma"}

SeqsUpTo(S, n) == UNION {[1..m -> S] : m \in 0..n}

InitFilter ==
    /\ f_list \in SeqsUpTo(FilterExercises, MaxRanked)
    /\ f_cond \in FilterConditions
    /\ f_result = [list |-> << >>, warnings |-> << >>]
    /\ f_called = FALSE
    /\ IdleValidate
    /\ IdleRecommender
    /\ IdleChat
    /\ IdleScorer
    /\ IdleMemory
    /\ IdleProgress

FilterExercisesForInjuries ==
    /\ ~f_called
    /\ f_result' = filter_exercises_for_injuries(f_list, f_cond)
    /\ f_called' = TRUE
    /\ UNCHANGED <<f_list, f_cond, v_vars, db_vars, r_vars, chat_vars, s_vars, m_vars, p_vars>>

NextFilter == FilterExercisesForInjuries

SpecFilter == InitFilter /\ [][NextFilter]_vars

(***************************************************************************)
(* Specification SpecRec: get_recommendations called on bounded families   *)
(* of catalogs and arguments.                                              *)
(***************************************************************************)

MaxTopK == 2

\* the cosine similarities a candidate can get, in thirtieths
CosineLevels == {0, 30}

Food(name, meal_type, category, protein, carbs, calories) ==
    [Name |-> name, Meal_Type |-> meal_type, Category |-> category,
     Protein |-> protein, Carbs |-> carbs, Calories |-> calories]

ExBarbellSquat == Exercise(" Barbell Squat", "Quadriceps", "Beginner", "Barbell",
                           "Strength", "Lower the hips")
ExWallSit      == Exercise("Wall Sit", "Quadriceps", "Beginner", "Body Only",
                           "Strength", "Hold a squat position")
ExLunge        == Exercise("Walking Lunge", "Legs", "Intermediate", "Dumbbell",
                           "Strength", "Step forward")
ExBoxJump      == Exercise("Box Jump", "Legs", "Advanced", "Other",
                           "Plyometrics", "Explosive hop")
ExPushUp       == Exercise("Push-Up", "Chest", "Beginner", "Body Only",
                           "Strength", "Press the floor away")
ExSwing        == Exercise("Kettlebell Swing", "Hamstrings", "Beginner", "Kettlebell",
                           "Cardio", "Hinge and swing")

\* a second catalog entry under the title of ExWallSit, in another spelling
ExWallSitAgain == Exercise("WALL SIT ", "Quadriceps", "Beginner", "Other",
                           "Strength", "Back against the wall")

ExerciseCatalogs ==
    { << >>,
      <<ExWallSit, ExWallSitAgain, ExBarbellSquat>>,
      <<ExBarbellSquat, ExWallSit, ExLunge, ExBoxJump>>,
      <<ExPushUp, ExWallSit, ExSwing>>,
      <<ExPushUp, ExBarbellSquat>>,
      <<ExBarbellSquat, ExWallSit, ExSwing, ExLunge>> }

FoodOatmeal  == Food("Oatmeal ", "Breakfast", "Grains", 5, 27, 150)
FoodSmoothie == Food("Protein Smoothie", "Breakfast", "Drinks", 25, 15, 220)
FoodChicken  == Food("Chicken Salad", "Lunch", "Salad", 30, 10, 350)
FoodFish     == Food("Grilled Fish", "Dinner", "Seafood", 28, 0, 300)
FoodTuna     == Food("Tuna Sandwich", "Lunch", "Fish", 20, 30, 420)

\* a second catalog entry under the name of FoodOatmeal, in another spelling
FoodOatmealAgain == Food("OATMEAL", "Breakfast", "Cereal", 6, 30, 160)

FoodCatalogs ==
    { << >>,
      <<FoodOatmeal, FoodOatmealAgain, FoodSmoothie>>,
      <<FoodOatmeal, FoodSmoothie, FoodChicken, FoodFish>>,
      <<FoodFish, FoodTuna, FoodOatmeal>> }

RecProfiles == { ("fitness_level" :> "Beginner") @@ ("goal" :> "Muscle Gain"),
                 ("goal" :> "Weight Loss") }

FitnessArgs ==
    [user_profile : RecProfiles,
     intent : {"fitness_request"},
     target : {"legs", "General", "arms"},
     ignore_list : {<< >>, <<"Barbell Squat ", "WALL SIT">>},
     extra_entities : {<< >>},
     top_k : 1..MaxTopK,
     likes : {<<"dumbbells">>},
     dislikes : {<< >>, <<"Squat">>},
     no_equipment : BOOLEAN]

NutritionArgs ==
    [user_profile : RecProfiles,
     intent : {"nutrition_request"},
     target : {"breakfast", "General"},
     ignore_list : {<< >>, <<" OATMEAL", "grilled fish">>},
     extra_entities : {<< >>, ("preference" :> "chicken"),
                       ("preference" :> "High Protein"),
                       ("preference" :> "vegetarian")},
     top_k : 1..MaxTopK,
     likes : {<<"smoothies">>},
     dislikes : {<< >>, <<"Fish">>},
     no_equipment : {FALSE}]

InitRec ==
    /\ \/ /\ r_args \in FitnessArgs
          /\ fitness_exercises \in ExerciseCatalogs
          /\ nutrition_items = << >>
       \/ /\ r_args \in NutritionArgs
          /\ fitness_exercises = << >>
          /\ nutrition_items \in FoodCatalogs
    /\ Fitness = << >>
    /\ r_result = << >>
    /\ r_called = FALSE
    /\ IdleValidate
    /\ IdleFilter
    /\ IdleChat
    /\ IdleScorer
    /\ IdleMemory
    /\ IdleProgress

GetRecommendations ==
    /\ ~r_called
    /\ r_result' \in get_recommendations(fitness_exercises, nutrition_items,
                                         r_args.user_profile, r_args.intent,
                                         r_args.target, r_args.ignore_list,
                                         r_args.extra_entities, r_args.top_k,
                                         r_args.likes, r_args.dislikes,
                                         r_args.no_equipment, CosineLevels)
    /\ r_called' = TRUE
    /\ UNCHANGED <<r_args, db_vars, v_vars, f_vars, chat_vars, s_vars, m_vars, p_vars>>

NextRec == GetRecommendations

SpecRec == InitRec /\ [][NextRec]_vars

(***************************************************************************)
(* Specification SpecScore: the scoring block and the truncation of        *)
(* _get_fitness_recs and _get_nutrition_recs, on bounded candidate pools   *)
(* with the cosine similarities of the pool given.                         *)
(***************************************************************************)

MaxPool == 3

\* cosine similarities of the pool, in thirtieths: 0, 0.2 and 1
ScoreCosineLevels == {0, 6, 30}

ExBenchPress == Exercise("Dumbbell Bench Press", "Chest", "Intermediate", "Dumbbell", "Strength", "Builds strength")

ScoreExercises == {ExLunge, ExPushUp, ExBarbellSquat, ExBenchPress}

ScoreFoods == {FoodSmoothie, FoodOatmeal, FoodChicken}

\* the pools of 1..n distinct rows of S, in every retrieval order
PoolsOf(S, n) ==
    {p \in UNION {[1..m -> S] : m \in 1..n} :
        \A i, j \in DOMAIN p : i # j => p[i] # p[j]}

ScoreArgs ==
    [user_profile : RecProfiles,
     likes : {<< >>, <<"dumbbells", "smoothies">>},
     top_k : 1..MaxTopK]

InitScore ==
    /\ s_candidates \in PoolsOf(ScoreExercises, MaxPool) \cup PoolsOf(ScoreFoods, MaxPool)
    /\ s_cosine \in [DOMAIN s_candidates -> ScoreCosineLevels]
    /\ s_args \in ScoreArgs
    /\ s_rows = << >>
    /\ s_result = << >>
    /\ s_called = FALSE
    /\ IdleValidate
    /\ IdleFilter
    /\ IdleRecommender
    /\ IdleChat
    /\ IdleMemory
    /\ IdleProgress

\* from pd.DataFrame(candidates) to the returned list
ScoreCandidates ==
    /\ ~s_called
    /\ LET fitness == "Title" \in DOMAIN s_candidates[1]
           scores == [i \in DOMAIN s_candidates |->
                        IF fitness
                        THEN FitnessScore(s_candidates[i], s_args.user_profile,
                                          s_args.likes, s_cosine[i])
                        ELSE NutritionScore(s_candidates[i], s_args.user_profile,
                                            s_args.likes, s_cosine[i])]
       IN  /\ s_rows' \in {s_candidates} \cup ScoredRows(s_candidates, scores)
           /\ s_result' = IF fitness
                          THEN FitnessResults(s_rows', s_args.user_profile,
                                              s_args.top_k)
                          ELSE Take(s_rows', s_args.top_k)
    /\ s_called' = TRUE
    /\ UNCHANGED <<s_candidates, s_cosine, s_args, v_vars, f_vars, db_vars, r_vars, chat_vars, m_vars, p_vars>>

NextScore == ScoreCandidates

SpecScore == InitScore /\ [][NextScore]_vars

(***************************************************************************)
(* Specification SpecProtocol: the results loop of _get_fitness_recs,      *)
(* which annotates the first top_k rows of df with their protocol, for     *)
(* every goal of a bounded family.                                         *)
(***************************************************************************)

ProtocolProfiles ==
    { << >>, ("goal" :> "Muscle Gain"), ("goal" :> "Weight Loss"),
      ("goal" :> "Weight Gain"), ("goal" :> "Fat Loss"),
      ("goal" :> "Maintenance") }

ExStretch == Exercise("Hip Stretch", "Legs", "", "Body Only", "Stretching", "Open the hips")

ProtocolExercises == {ExWallSit, ExLunge, ExBoxJump, ExStretch}

InitProtocol ==
    /\ s_rows \in PoolsOf(ProtocolExercises, MaxPool)
    /\ s_args \in [user_profile : ProtocolProfiles, likes : {<< >>}, top_k : 1..MaxTopK]
    /\ s_candidates = << >>
    /\ s_cosine = << >>
    /\ s_result = << >>
    /\ s_called = FALSE
    /\ IdleValidate
    /\ IdleFilter
    /\ IdleRecommender
    /\ IdleChat
    /\ IdleMemory
    /\ IdleProgress

\* for _, row in df.iterrows(): ... if len(results) >= top_k: break
AnnotateResults ==
    /\ ~s_called
    /\ s_result' = FitnessResults(s_rows, s_args.user_profile, s_args.top_k)
    /\ s_called' = TRUE
    /\ UNCHANGED <<s_candidates, s_cosine, s_args, s_rows, v_vars, f_vars, db_vars, r_vars, chat_vars, m_vars, p_vars>>

NextProtocol == AnnotateResults

SpecProtocol == InitProtocol /\ [][NextProtocol]_vars

(***************************************************************************)
(* Profile updates and weight logs                                         *)
(*                                                                         *)
(* Weights are whole kilograms, heights whole centimetres, BMI is kept in  *)
(* tenths.  The callers of the two calculators only test their result for  *)
(* truth, and None and 0 are both false: 0 stands for either.              *)
(***************************************************************************)

\* round(a / b, 1) of Python, in tenths: to the nearest tenth, a tie to the
\* even one
RoundTenths(a, b) ==
    LET q == (10 * a) \div b
        r == (10 * a) % b
    IN  IF 2 * r > b \/ (2 * r = b /\ q % 2 = 1) THEN q + 1 ELSE q

\* calculate_bmi(weight, height): weight / (height / 100) ** 2, or None
calculate_bmi(weight, height) ==
    IF weight = 0 \/ height = 0 THEN 0
    ELSE RoundTenths(weight * 10000, height * height)

\* calculate_target_calories: int() of 1.2 * bmr and the goal adjustment
calculate_target_calories(weight, height, age, gender, goal) ==
    IF weight = 0 \/ height = 0 \/ age = 0 \/ gender = "" THEN 0
    ELSE LET bmr4 == 40 * weight + 25 * height - 20 * age
                     + (IF gender = "Male" THEN 20 ELSE -644)
             adjust == IF Contains("Loss", goal) \/ Contains("Cut", goal) THEN -500
                       ELSE IF Contains("Gain", goal) \/ Contains("Muscle", goal)
                       THEN 300 ELSE 0
             target10 == 3 * bmr4 + 10 * adjust
         IN  IF target10 >= 0 THEN target10 \div 10 ELSE -((-target10) \div 10)

\* doc_ref.set(user_data, merge=True)
MergeDoc(doc, user_data) ==
    [k \in DOMAIN doc \cup DOMAIN user_data |->
        IF k \in DOMAIN user_data THEN user_data[k] ELSE doc[k]]

allowed_fields ==
    {"name", "age", "gender", "weight", "height", "goal", "fitness_level",
     "medical_conditions"}

\* update_profile: clean_updates, the fields written to the user document
update_profile(current_profile, updates) ==
    LET full_data == MergeDoc(current_profile, updates)
        copied == [k \in DOMAIN updates \cap allowed_fields |-> updates[k]]
        w == Get(full_data, "weight", 0)
        h == Get(full_data, "height", 0)
        a == Get(full_data, "age", 0)
        g == Get(full_data, "gender", "Male")
        goal == Get(full_data, "goal", "General")
        bmi == IF w > 0 /\ h > 0 THEN calculate_bmi(w, h) ELSE 0
        cals == IF w > 0 /\ h > 0 /\ a > 0
                THEN calculate_target_calories(w, h, a, g, goal) ELSE 0
        with_bmi == IF bmi # 0 THEN Put(copied, "bmi", bmi) ELSE copied
    IN  IF cals # 0 THEN Put(with_bmi, "target_calories", cals)
        ELSE with_bmi

\* add_weight_log: the BMI of the entry, None (0) without a height
WeightLogBmi(profile, weight) ==
    LET height == Get(profile, "height", 0)
    IN  IF height > 0 THEN RoundTenths(weight * 10000, height * height) ELSE 0

(***************************************************************************)
(* Specification SpecProfile: one user's document under profile updates    *)
(* (POST /update-user-profile) and weight logs (the log_weight intent of   *)
(* the chat, POST /log-data).                                              *)
(***************************************************************************)

MaxOps == 3

ProfileWeights == {60, 90}
ProfileHeights == {160, 180}

\* updates of the profile form: any of weight and height, a weight of 0
\* included
ProfileUpdates ==
    {w @@ h : w \in {<< >>} \cup {("weight" :> x) : x \in ProfileWeights \cup {0}},
              h \in {<< >>} \cup {("height" :> x) : x \in ProfileHeights}}

\* the documents the profile form leaves for a new user
ProfileDocs ==
    {update_profile(<< >>, ("weight" :> w) @@ ("height" :> h) @@ ("age" :> 30)
                           @@ ("gender" :> "Male") @@ ("goal" :> "Weight Loss")) :
        w \in ProfileWeights, h \in ProfileHeights}

InitProfile ==
    /\ users_profile \in ProfileDocs
    /\ weight_logs = << >>
    /\ nutrition_logs = << >>
    /\ calls = << >>
    /\ n_ops = 0
    /\ recent_recommendations = << >>
    /\ session = << >>
    /\ reply = NoReply
    /\ n_msgs = 0
    /\ process = "running"
    /\ memory_ok = TRUE
    /\ stages = << >>
    /\ favorites = << >>
    /\ feedback_reply = << >>
    /\ n_feedback = 0
    /\ shown_titles = NothingShown
    /\ IdleValidate
    /\ IdleFilter
    /\ IdleRecommender
    /\ IdleScorer
    /\ IdleMemory

\* what the profile and weight handlers leave alone
p_frame == <<recent_recommendations, session, reply, n_msgs, process, memory_ok, stages, favorites, feedback_reply, n_feedback, shown_titles, nutrition_logs, calls, v_vars, f_vars, db_vars, r_vars, s_vars, m_vars>>

\* POST /update-user-profile; a write that raises leaves the document as it
\* was and the handler answers 500
UpdateProfile ==
    /\ n_ops < MaxOps
    /\ \E updates \in ProfileUpdates :
          users_profile' \in {users_profile,
                              MergeDoc(users_profile,
                                       update_profile(users_profile, updates))}
    /\ n_ops' = n_ops + 1
    /\ UNCHANGED <<weight_logs, p_frame>>

\* UserManager.add_weight_log(user_id, weight), called for the log_weight
\* intent of the chat: the entry is added, then the profile is written; either
\* write can raise, which ends the call
AddWeightLog ==
    /\ n_ops < MaxOps
    /\ \E weight \in ProfileWeights :
          LET bmi == WeightLogBmi(users_profile, weight)
              log_entry == [timestamp |-> now, weight |-> weight, bmi |-> bmi]
              profile_update == IF bmi # 0
                                THEN ("weight" :> weight) @@ ("bmi" :> bmi)
                                ELSE ("weight" :> weight)
          IN  \/ /\ weight_logs' = Append(weight_logs, log_entry)
                 /\ users_profile' \in {users_profile,
                                         MergeDoc(users_profile, profile_update)}
              \/ UNCHANGED <<weight_logs, users_profile>>
    /\ n_ops' = n_ops + 1
    /\ UNCHANGED p_frame

\* UserManager.log_weight(user_id, weight), called by POST /log-data with
\* type 'weight'
LogWeight ==
    /\ n_ops < MaxOps
    /\ \E weight \in ProfileWeights :
          LET entry == [weight |-> weight, date |-> now, timestamp |-> now]
          IN  \/ /\ weight_logs' = Append(weight_logs, entry)
                 /\ users_profile' \in {users_profile,
                                         MergeDoc(users_profile, ("weight" :> weight))}
              \/ UNCHANGED <<weight_logs, users_profile>>
    /\ n_ops' = n_ops + 1
    /\ UNCHANGED p_frame

NextProfile == UpdateProfile \/ AddWeightLog \/ LogWeight

SpecProfile == InitProfile /\ [][NextProfile]_vars

(***************************************************************************)
(* UserManager.add_nutrition_log                                           *)
(*                                                                         *)
(* The call reads today's document, adds its values to the totals it read, *)
(* appends its entry and writes the whole document back.  The server       *)
(* handles requests in threads, so the calls of two requests interleave    *)
(* between the read and the write.  A value of None is an absent key.      *)
(***************************************************************************)

Macros == <<"calories", "protein", "carbs", "fat">>

\* existing when today's document does not exist
NoNutritionYet ==
    [calories |-> 0, protein |-> 0, carbs |-> 0, fat |-> 0, entries |-> << >>]

\* doc_ref.get(): the document, or the default when it does not exist
ReadNutrition(doc) == IF doc = << >> THEN NoNutritionYet ELSE doc

\* the entry of a call: its timestamp and the values that are not None
NewEntry(timestamp, values) == ("timestamp" :> timestamp) @@ values

\* existing after the additions: the totals the call read plus its values,
\* and the entries it read followed by its own
AddedNutrition(existing, timestamp, values, today) ==
    [k \in DOMAIN existing \cup {"entries", "date"} |->
        IF k \in DOMAIN values THEN Get(existing, k, 0) + values[k]
        ELSE IF k = "entries"
        THEN Append(Get(existing, "entries", << >>), NewEntry(timestamp, values))
        ELSE IF k = "date" THEN today
        ELSE existing[k]]

(***************************************************************************)
(* Specification SpecNutrition: MaxCalls requests log nutrition for one    *)
(* user on one day, each in its own thread.                                *)
(***************************************************************************)

MaxCalls == 2

Today == "2024-05-01"

\* calories, protein, carbs, fat of a call, None left out
NutritionValues ==
    { ("calories" :> 200), ("calories" :> 350) @@ ("protein" :> 20),
      ("protein" :> 30) @@ ("carbs" :> 40) @@ ("fat" :> 10) }

\* today's document before the calls: none yet, or the one a first call left
NutritionDocs ==
    { << >>, AddedNutrition(NoNutritionYet, 0, ("calories" :> 500), Today) }

InitNutrition ==
    /\ nutrition_logs \in NutritionDocs
    /\ calls \in [1..MaxCalls -> [pc : {"start"}, values : NutritionValues,
                                  existing : {<< >>}]]
    /\ weight_logs = << >>
    /\ n_ops = 0
    /\ IdleValidate
    /\ IdleFilter
    /\ IdleRecommender
    /\ IdleChat
    /\ IdleScorer
    /\ IdleMemory

\* what add_nutrition_log leaves alone
n_frame == <<weight_logs, n_ops, v_vars, f_vars, db_vars, r_vars, chat_vars, s_vars, m_vars>>

\* doc = doc_ref.get() of call c: the call holds what it read, or the read
\* raises and the call returns None
ReadToday(c) ==
    /\ calls[c].pc = "start"
    /\ \/ calls' = [calls EXCEPT ![c].pc = "read",
                                  ![c].existing = ReadNutrition(nutrition_logs)]
       \/ calls' = [calls EXCEPT ![c].pc = "failed"]
    /\ UNCHANGED <<nutrition_logs, n_frame>>

\* doc_ref.set(existing) of call c, after the additions to what it read; the
\* write can raise, and the call then returns None
WriteToday(c) ==
    /\ calls[c].pc = "read"
    /\ \/ /\ nutrition_logs' = AddedNutrition(calls[c].existing, c,
                                               calls[c].values, Today)
          /\ calls' = [calls EXCEPT ![c].pc = "done"]
       \/ /\ calls' = [calls EXCEPT ![c].pc = "failed"]
          /\ UNCHANGED nutrition_logs
    /\ UNCHANGED n_frame

Read == \E c \in 1..MaxCalls : ReadToday(c)

Write == \E c \in 1..MaxCalls : WriteToday(c)

NextNutrition == Read \/ Write

SpecNutrition == InitNutrition /\ [][NextNutrition]_vars

(***************************************************************************)
(* Specification SpecMemory: SimpleMemory over one user's                  *)
(* recent_recommendations collection, with the clock advancing.            *)
(***************************************************************************)

\* what SimpleMemory leaves alone
m_frame == <<users_profile, session, reply, n_msgs, process, memory_ok, stages, favorites, feedback_reply, n_feedback, shown_titles, v_vars, f_vars, db_vars, r_vars, s_vars, p_vars>>

\* timedelta(days=1), in units of the clock (12 hours)
Cutoff == 2

MaxClock == 3
MaxLog == 22
MaxWrites == 2

MemoryTitles == {"Push Up", "Walking Lunge"}
MemoryCategories == {"exercises", "foods"}

MemoryEntry(title, category, timestamp) ==
    [title |-> title, category |-> category, timestamp |-> timestamp]

\* the collections at the start: nothing or one entry, followed by up to
\* MaxLog - 2 entries of one other title, all written in the first hours
InitLogs ==
    {base \o [i \in 1..n |-> MemoryEntry("Push Up", "exercises", 0)] :
        base \in {<< >>,
                  <<MemoryEntry("Walking Lunge", "exercises", 0)>>,
                  <<MemoryEntry("Walking Lunge", "foods", 0)>>},
        n \in 0..(MaxLog - 2)}

InitMemory ==
    /\ recent_recommendations \in InitLogs
    /\ now = 0
    /\ m_recent = << >>
    /\ m_query = << >>
    /\ n_writes = 0
    /\ users_profile = << >>
    /\ session = << >>
    /\ reply = NoReply
    /\ n_msgs = 0
    /\ process = "starting"
    /\ memory_ok = TRUE
    /\ stages = << >>
    /\ favorites = << >>
    /\ feedback_reply = << >>
    /\ n_feedback = 0
    /\ shown_titles = NothingShown
    /\ IdleValidate
    /\ IdleFilter
    /\ IdleRecommender
    /\ IdleScorer
    /\ IdleProgress

\* memory.log_interaction(user_id, title, category): the entry is added, or
\* the add raises and the exception is swallowed
LogInteraction ==
    /\ n_writes < MaxWrites
    /\ Len(recent_recommendations) < MaxLog
    /\ \E title \in MemoryTitles, category \in MemoryCategories :
          recent_recommendations' \in
              {log_interaction(recent_recommendations, title, category),
               recent_recommendations}
    /\ n_writes' = n_writes + 1
    /\ UNCHANGED <<now, m_recent, m_query, m_frame>>

\* memory.get_recent_items(user_id, category): the titles, or [] when the
\* query raises
GetRecentItems ==
    /\ \E category \in MemoryCategories :
          /\ m_recent' \in {get_recent_items(recent_recommendations, category),
                                << >>}
          /\ m_query' = [category |-> category, at |-> now]
    /\ UNCHANGED <<recent_recommendations, now, n_writes, m_frame>>

\* time passes
Tick ==
    /\ now < MaxClock
    /\ now' = now + 1
    /\ UNCHANGED <<recent_recommendations, m_recent, m_query, n_writes, m_frame>>

NextMemory ==
    \/ LogInteraction
    \/ GetRecentItems
    \/ Tick

SpecMemory == InitMemory /\ [][NextMemory]_vars

(***************************************************************************)
(* Specification Spec: a client talks to chat_endpoint, sending back with  *)
(* each message the session it received with the last reply.               *)
(***************************************************************************)

MaxMessages == 2

\* one cosine similarity for every candidate: the ranking of a reply is then
\* decided by effectiveness and likes
ChatCosineLevels == {0}

Profile(age, goal) == ("age" :> age) @@ ("goal" :> goal)

Body(weight, height, bmi) == ("weight" :> weight) @@ ("height" :> height) @@ ("bmi" :> bmi)

ChatProfiles ==
    { Profile(30, "Muscle Gain") @@ Body(80, 180, 247)
        @@ ("fitness_level" :> "Beginner") @@ ("medical_conditions" :> "Knee pain"),
      Profile(25, "Weight Loss") @@ Body(70, 175, 229)
        @@ ("medical_conditions" :> ""),
      Profile(16, "Weight Loss") @@ Body(60, 170, 208),
      Profile(16, "Muscle Gain") }

ChatExercises == <<ExBarbellSquat, ExLunge, ExPushUp>>

ChatFoods == <<FoodOatmeal, FoodFish>>

FitnessDocs ==
    { << >>,
      << [Primary_Muscle |-> "Legs", Level |-> "Beginner",
          Exercise_Name |-> "Jump Squat"] >> }

\* a message with what analyze_message extracts from it
Message(message, intent, entities) ==
    [message |-> message,
     analysis |-> ("intent" :> intent) @@ ("entities" :> entities)]

ChatMessages ==
    { Message("leg workout please", "fitness_request", ("target" :> "legs")),
      Message("give me another one", "fitness_variation", << >>),
      Message("chest workout at home, I like dumbbells", "fitness_request",
              ("target" :> "chest") @@ ("no_equipment" :> TRUE)
                @@ ("preferences" :> <<"Dumbbells">>)),
      Message("fit a leg workout into my Schedule", "fitness_request",
              ("target" :> "legs")),
      Message("breakfast ideas, I hate fish", "nutrition_request",
              ("target" :> "breakfast") @@ ("dislikes" :> <<"Fish ">>)),
      Message("something else to eat", "nutrition_variation", << >>),
      Message("I love fish", "add_preference", ("preference" :> "fish")),
      Message("I hate fish", "add_dislike", ("dislikes" :> <<"fish">>)),
      Message("I like fish but I hate fish", "add_preference",
              ("preferences" :> <<"fish">>) @@ ("dislikes" :> <<"fish">>)),
      Message("forget what I like, I just hate fish", "clear_preferences",
              ("dislikes" :> <<"fish">>)),
      Message("plan my training week", "workout_table", << >>),
      Message("what is my timetable", "general_chat", << >>),
      Message("how do I squat", "explain_exercise", ("target" :> "squat")),
      Message("recipe for oatmeal", "nutrition_recipe", << >>) }

\* the server before start-up, over the given stored profiles and catalogs
InitChat(profiles, exercises, foods, docs) ==
    /\ users_profile \in profiles
    /\ fitness_exercises = exercises
    /\ nutrition_items = foods
    /\ Fitness \in docs
    /\ recent_recommendations = << >>
    /\ session = << >>
    /\ reply = NoReply
    /\ n_msgs = 0
    /\ process = "starting"
    /\ memory_ok = TRUE
    /\ stages = << >>
    /\ favorites = << >>
    /\ feedback_reply = << >>
    /\ n_feedback = 0
    /\ shown_titles = NothingShown
    /\ r_args = << >>
    /\ r_result = << >>
    /\ r_called = FALSE
    /\ IdleValidate
    /\ IdleFilter
    /\ IdleScorer
    /\ IdleMemory
    /\ IdleProgress

Init == InitChat(ChatProfiles, ChatExercises, ChatFoods, FitnessDocs)

\* the module body of app.py: without a Firebase app db_client is None and
\* the handlers would run without a store, but ContentBasedRecommender()
\* calls firestore.client(), which raises, and the import fails
Startup ==
    /\ process = "starting"
    /\ \E firebase_apps \in BOOLEAN :
          process' = IF firebase_apps THEN "running" ELSE "crashed"
    /\ UNCHANGED <<users_profile, recent_recommendations, session, reply, n_msgs, memory_ok, stages>>
    /\ UNCHANGED <<favorites, feedback_reply, n_feedback, shown_titles>>
    /\ UNCHANGED <<v_vars, f_vars, db_vars, r_vars, s_vars, m_vars, p_vars>>

\* POST /get-recommendation with one of the given messages
ChatStep(messages, max_messages) ==
    /\ process = "running"
    /\ n_msgs < max_messages
    /\ \E m \in messages :
         \E out \in chat_endpoint(m.message, m.analysis, session, users_profile,
                                  recent_recommendations, fitness_exercises,
                                  nutrition_items, Fitness, ChatCosineLevels) :
            /\ reply' = out.reply
            /\ session' = out.session
            /\ recent_recommendations' = out.log
            /\ stages' = out.stages
            /\ memory_ok' = out.memory_ok
    /\ n_msgs' = n_msgs + 1
    /\ UNCHANGED <<users_profile, process, favorites, feedback_reply, n_feedback>>
    /\ UNCHANGED <<v_vars, f_vars, db_vars, r_vars, s_vars, m_vars, p_vars>>

\* POST /get-recommendation
Chat ==
    /\ ChatStep(ChatMessages, MaxMessages)
    /\ UNCHANGED shown_titles

MaxFeedback == 1

\* POST /feedback on an item of the last reply
Feedback ==
    /\ process = "running"
    /\ n_feedback < MaxFeedback
    /\ \E item_data \in Range(reply.items) \cup {<< >>}, rating \in {"good", "bad", ""} :
         \E out \in handle_feedback(users_profile, favorites, item_data, rating,
                                    IF "Name" \in DOMAIN item_data
                                    THEN "nutrition" ELSE "exercise") :
            /\ users_profile' = out.user_doc
            /\ favorites' = out.favorites
            /\ feedback_reply' = out.response
    /\ n_feedback' = n_feedback + 1
    /\ UNCHANGED <<recent_recommendations, session, reply, n_msgs, process, memory_ok, stages, shown_titles>>
    /\ UNCHANGED <<v_vars, f_vars, db_vars, r_vars, s_vars, m_vars, p_vars>>

Next ==
    \/ Startup
    \/ Chat

Spec == Init /\ [][Next]_vars

(***************************************************************************)
(* Specification SpecFeedback: one adult user chats and rates the items    *)
(* of the replies.                                                         *)
(***************************************************************************)

FeedbackProfiles ==
    { Profile(25, "Weight Loss") @@ Body(70, 175, 229) @@ ("medical_conditions" :> "") }

InitFeedback ==
    InitChat(FeedbackProfiles, <<ExLunge, ExPushUp>>, <<FoodOatmeal>>, {<< >>})

NextFeedback ==
    \/ Startup
    \/ Chat
    \/ Feedback

SpecFeedback == InitFeedback /\ [][NextFeedback]_vars

(***************************************************************************)
(* Specification SpecSession: one adult user asks for workouts and meals   *)
(* and for variations of them, in any order, within one session.           *)
(***************************************************************************)

MaxSessionMessages == 3

SessionMessages ==
    { Message("leg workout please", "fitness_request", ("target" :> "legs")),
      Message("give me another one", "fitness_variation", << >>),
      Message("breakfast ideas", "nutrition_request", ("target" :> "breakfast")),
      Message("something else to eat", "nutrition_variation", << >>) }

InitSession ==
    InitChat(FeedbackProfiles, <<ExLunge, ExPushUp>>, <<FoodOatmeal>>, {<< >>})

\* the normalized titles or names of the items of a reply
ItemTitles(items) ==
    {Norm(IF "Title" \in DOMAIN items[i] THEN items[i].Title ELSE items[i].Name) :
        i \in DOMAIN items}

\* the history after a reply: an initial request starts the titles of its
\* kind anew, a variation adds to them
ShownAfter(titles, r) ==
    IF r.intent = "fitness_request"
    THEN [titles EXCEPT !.exercises = ItemTitles(r.items)]
    ELSE IF r.intent = "fitness_variation"
    THEN [titles EXCEPT !.exercises = @ \cup ItemTitles(r.items)]
    ELSE IF r.intent = "nutrition_request"
    THEN [titles EXCEPT !.foods = ItemTitles(r.items)]
    ELSE IF r.intent = "nutrition_variation"
    THEN [titles EXCEPT !.foods = @ \cup ItemTitles(r.items)]
    ELSE titles

\* POST /get-recommendation, with the history of the titles replied
SessionChat ==
    /\ ChatStep(SessionMessages, MaxSessionMessages)
    /\ shown_titles' = ShownAfter(shown_titles, reply')

NextSession ==
    \/ Startup
    \/ SessionChat

SpecSession == InitSession /\ [][NextSession]_vars

(***************************************************************************)
(* Claims                                                                  *)
(***************************************************************************)

\* C2: for every adult profile (age present and >= 18, or age absent and so
\* defaulted) with BMI < 16, validate_request returns ok = FALSE whatever the
\* goal is, a missing goal included.
C2_SevereUnderweightAlwaysBlocked ==
    (/\ v_called
     /\ Get(v_profile, "age", 25) >= 18
     /\ "bmi" \in DOMAIN v_profile
     /\ v_profile["bmi"] < 160)
    => v_result.ok = FALSE

\* C2 witness: an adult with BMI 15.9 and a goal without any loss, muscle or
\* gain keyword has been refused, and so has one with no goal at all.
C2_Witness ==
    /\ v_called
    /\ Get(v_profile, "age", 25) >= 18
    /\ Get(v_profile, "bmi", 220) = 159
    /\ Get(v_profile, "goal", "Maintenance") = "Maintenance"
    /\ v_result.ok = FALSE
    /\ v_result.msg = MsgMedical

C5_OverfilterFloor ==
    (f_called /\ f_list # << >>) =>
        /\ f_result.list # << >>
        /\ (/\ f_cond # ""
            /\ \A i \in 1..Len(f_list) :
                  LET t == Lower(f_list[i].Title)
                      d == Lower(f_list[i].Desc)
                      c == Lower(f_cond)
                  IN  \/ /\ Contains("knee", c)
                         /\ \/ \E w \in {"squat", "lunge", "leg press", "jump", "run", "plyo"} :
                                  Contains(w, t) \/ Contains(w, d)
                            \/ Lower(f_list[i].Type) = "plyometrics"
                      \/ /\ Contains("back", c)
                         /\ \E w \in {"deadlift", "good morning", "bent over",
                                      "back extension"} :
                               Contains(w, t) \/ Contains(w, d))
           => /\ f_result.list = << f_list[1] >>
              /\ f_result.warnings # << >>
              /\ f_result.warnings[Len(f_result.warnings)].kind = "OVERFILTER WARNING"

\* C5 witness: three exercises, all flagged for a knee condition, came back as
\* the first one alone.
C5_Witness ==
    /\ f_called
    /\ Len(f_list) = 3
    /\ f_cond = "Knee pain"
    /\ f_list[1].Title = "Wall Sit"
    /\ f_list[2].Title = "Crunch"
    /\ f_list[3].Title = "Box Drill"
    /\ f_result.list = << f_list[1] >>

\* C4: no item returned by get_recommendations, for exercises or for food and
\* whichever tier or fallback supplied it, has a stripped, lower-cased title
\* or name that is the stripped, lower-cased form of an entry of the ignore
\* list passed in.
C4_NoIgnoredTitleReturned ==
    r_called =>
        \A i \in DOMAIN r_result :
            LET key == IF "Title" \in DOMAIN r_result[i]
                       THEN Lower(Strip(r_result[i].Title))
                       ELSE Lower(Strip(r_result[i].Name))
            IN  \A j \in DOMAIN r_args.ignore_list :
                    r_args.ignore_list[j] # ""
                        => key # Lower(Strip(r_args.ignore_list[j]))

\* C4 witness: with " Barbell Squat" in the catalog and "Barbell Squat " in
\* the ignore list, an arms request (no taxonomy match, so the whole-catalog
\* scan supplies the pool) returned something.
C4_Witness ==
    /\ r_called
    /\ r_args.intent = "fitness_request"
    /\ r_args.target = "arms"
    /\ r_args.ignore_list # << >>
    /\ fitness_exercises = <<ExPushUp, ExBarbellSquat>>
    /\ r_result # << >>

\* C9: no item returned by get_recommendations has a dislike term as a
\* substring of its searchable text: title, equipment, type and description
\* for an exercise, name and category for a food.
C9_NoDislikedItemReturned ==
    r_called =>
        \A i \in DOMAIN r_result :
            LET item == r_result[i]
                text == IF "Title" \in DOMAIN item
                        THEN Norm(item.Title) \o " " \o Norm(item.Equipment) \o " "
                             \o Norm(item.Type) \o " " \o Norm(item.Desc)
                        ELSE Norm(item.Name) \o " " \o Norm(item.Category)
            IN  \A j \in DOMAIN r_args.dislikes :
                    r_args.dislikes[j] # ""
                        => ~Contains(Norm(r_args.dislikes[j]), text)

\* C10: when no_equipment is set on a fitness request, every exercise returned
\* has a stripped, lower-cased equipment tag among body only, bodyweight,
\* body weight, none, other and the empty tag.
C10_NoEquipmentRespected ==
    (r_called /\ r_args.intent = "fitness_request" /\ r_args.no_equipment) =>
        \A i \in DOMAIN r_result :
            Lower(Strip(r_result[i].Equipment))
                \in {"body only", "bodyweight", "body weight", "none", "other", ""}

\* C10 witness: a no-equipment legs request over a catalog that holds barbell
\* and dumbbell exercises returned two exercises.
C10_Witness ==
    /\ r_called
    /\ r_args.intent = "fitness_request"
    /\ r_args.no_equipment
    /\ r_args.target = "legs"
    /\ fitness_exercises = <<ExBarbellSquat, ExWallSit, ExLunge, ExBoxJump>>
    /\ Len(r_result) = 2

\* the terms a message carries, as the handler stores them
CleanTerms(xs) == {Strip(Lower(xs[i])) : i \in DOMAIN xs} \ {""}

LikeTerms(analysis) ==
    LET entities == Get(analysis, "entities", << >>)
    IN  CleanTerms(Get(entities, "preferences", << >>))
        \cup CleanTerms(<< Get(entities, "preference", "") >>)

DislikeTerms(analysis) ==
    CleanTerms(Get(Get(analysis, "entities", << >>), "dislikes", << >>))

\* the title of an item holds a knee-risk keyword
KneeRiskTitle(item) ==
    \E j \in DOMAIN risk_keywords[1].risky_terms :
        Contains(risk_keywords[1].risky_terms[j], Lower(item.Title))

\* the stored profile mentions a knee condition
KneeProfile == Contains("knee", Lower(Get(users_profile, "medical_conditions", "")))

\* the intents that ask for exercises, food or a weekly schedule
RecommendationIntents ==
    {"fitness_request", "fitness_variation", "nutrition_request",
     "nutrition_variation", "workout_table"}

\* C1: for a stored profile with age < 18, a request for recommendations
\* always ends Blocked: the reply is the safety block with its message and
\* carries no items and no schedule, whatever the intent, the message, the
\* goal, the BMI and the other fields of the profile are.
C1_MinorAlwaysBlocked ==
    (/\ n_msgs > 0
     /\ "age" \in DOMAIN users_profile
     /\ users_profile["age"] < 18
     /\ Get(reply.analysis, "intent", "") \in RecommendationIntents)
    => /\ reply.response_type = "safety_block"
       /\ reply.text = MsgAge
       /\ reply.items = << >>
       /\ reply.schedule = << >>

\* C6 as stated: for a profile whose conditions mention knee, no exercise in
\* a reply has a title with a knee-risk keyword.
C6_NoKneeRiskTitleReturned ==
    (n_msgs > 0 /\ KneeProfile /\ reply.response_type = "fitness_recommendation")
    => \A i \in DOMAIN reply.items : ~KneeRiskTitle(reply.items[i])

\* C6 amended: for a profile whose conditions mention knee, no exercise of a
\* fitness recommendation reply has a title with a knee-risk keyword, unless
\* the injury filter flagged every ranked exercise, and then the reply holds
\* exactly the first ranked exercise.
C6_KneeRiskOnlyByFloor ==
    (n_msgs > 0 /\ KneeProfile /\ reply.response_type = "fitness_recommendation")
    => \/ \A i \in DOMAIN reply.items : ~KneeRiskTitle(reply.items[i])
       \/ /\ reply.raw_recs # << >>
          /\ \A i \in DOMAIN reply.raw_recs :
                is_unsafe(reply.raw_recs[i],
                          Lower(reply.profile["medical_conditions"]))
          /\ reply.items = << reply.raw_recs[1] >>

\* C6 witness: for the knee profile the recommender ranked a squat and a
\* lunge together with a safe exercise, and the reply holds the safe one only.
C6_Witness ==
    /\ n_msgs > 0
    /\ KneeProfile
    /\ reply.response_type = "fitness_recommendation"
    /\ Len(reply.raw_recs) = 3
    /\ \E i \in DOMAIN reply.raw_recs : KneeRiskTitle(reply.raw_recs[i])
    /\ Len(reply.items) = 1
    /\ ~KneeRiskTitle(reply.items[1])

\* C7: every reply that carries exercise items, food items or a weekly
\* schedule was produced after validate_request returned ok on the request's
\* profile and after filter_exercises_for_injuries ran on the ranked items
\* with the profile's medical conditions.
C7_RecommendationsOnlyAfterBothChecks ==
    (n_msgs > 0 /\ (reply.items # << >> \/ reply.schedule # << >>))
    => reply.admission = "ok" /\ reply.injury_filter

RowEffectiveness(row) ==
    IF "Title" \in DOMAIN row
    THEN FitnessEffectiveness(row, r_args.user_profile)
    ELSE NutritionEffectiveness(row, r_args.user_profile)

RowPreference(row, c) ==
    IF "Title" \in DOMAIN row
    THEN FitnessPreference(row, CleanList(r_args.likes), c)
    ELSE NutritionPreference(row, CleanList(r_args.likes), c)

\* C11: for every candidate the recommender can score, exercise or food, and
\* every cosine similarity, effectiveness and preference lie in [0, 1]
\* (0..30 thirtieths), and the score of every returned row is
\* 0.7 * effectiveness + 0.3 * preference and lies in [0, 1]
\* (0..300 three-hundredths).
C11_ScoresWithinUnitInterval ==
    r_called =>
        /\ \A row \in Range(fitness_exercises) \cup Range(nutrition_items) :
              \A c \in CosineLevels :
                 /\ RowEffectiveness(row) \in 0..30
                 /\ RowPreference(row, c) \in 0..30
                 /\ FinalScore(RowEffectiveness(row), RowPreference(row, c)) \in 0..300
        /\ \A i \in DOMAIN r_result :
              "score" \in DOMAIN r_result[i] =>
                 /\ r_result[i].score \in 0..300
                 /\ \E c \in CosineLevels :
                       r_result[i].score =
                          7 * RowEffectiveness(r_result[i])
                          + 3 * RowPreference(r_result[i], c)

\* C11 witness: a returned food matched more than one gold standard and a
\* like, so both caps were needed, and its score is exactly 1.
C11_Witness ==
    /\ r_called
    /\ \E i \in DOMAIN r_result :
          /\ "score" \in DOMAIN r_result[i]
          /\ "Name" \in DOMAIN r_result[i]
          /\ r_result[i].Name = "Protein Smoothie"
          /\ RowEffectiveness(r_result[i]) = 30
          /\ HasPreferenceMatch(CleanList(r_args.likes), {Lower(r_result[i].Name)})
          /\ r_result[i].score = 300

(***************************************************************************)
(* Ranking of the scored pool (SpecScore)                                  *)
(***************************************************************************)

\* df carries a score column: the scoring block ran to its end
Scored == s_called /\ s_rows # << >> /\ "score" \in DOMAIN s_rows[1]

\* the retrieval position of the row at position a of df
PoolIndex(a) ==
    CHOOSE i \in DOMAIN s_candidates :
        \A k \in DOMAIN s_candidates[i] : s_candidates[i][k] = s_rows[a][k]

LikedMatch(a) ==
    HasPreferenceMatch(s_args.likes,
                       {Lower(s_rows[a].Title), Lower(s_rows[a].Equipment)})

\* rows a and b of df are exercises of equal effectiveness, and a liked term
\* matches title or equipment of a and neither of b
EqualButForLike(a, b) ==
    /\ "Title" \in DOMAIN s_rows[a]
    /\ a # b
    /\ LikedMatch(a)
    /\ ~LikedMatch(b)
    /\ FitnessEffectiveness(s_rows[a], s_args.user_profile)
         = FitnessEffectiveness(s_rows[b], s_args.user_profile)

\* C12 as stated: of two scored exercises of equal effectiveness of which
\* exactly one matches a liked term in title or equipment, the matching one
\* comes first in the ranking, whatever the cosine similarities of the two.
C12_LikedAlwaysAbove ==
    Scored =>
        \A a, b \in DOMAIN s_rows : EqualButForLike(a, b) => a < b

\* C12, amended: of two scored exercises of equal effectiveness of which
\* exactly one matches a liked term in title or equipment, the matching one
\* comes first whenever its cosine similarity plus 0.3, capped at 1, exceeds
\* the cosine similarity of the other; and when it is lower than that the
\* other one comes first.
C12_LikedAboveUnlessBaselineOutweighs ==
    Scored =>
        \A a, b \in DOMAIN s_rows :
            EqualButForLike(a, b) =>
                LET boosted == Min(30, s_cosine[PoolIndex(a)] + 9)
                    other == s_cosine[PoolIndex(b)]
                IN  /\ boosted > other => a < b
                    /\ boosted < other => b < a

\* the liked exercise has the lower cosine similarity and still comes first
C12_Witness ==
    /\ Scored
    /\ \E a, b \in DOMAIN s_rows :
          /\ EqualButForLike(a, b)
          /\ s_cosine[PoolIndex(a)] < s_cosine[PoolIndex(b)]
          /\ a < b

\* the returned list is a prefix of df of at most top_k rows
C13_AtMostTopK ==
    s_called =>
        /\ Len(s_result) = Min(Len(s_rows), s_args.top_k)
        /\ Len(s_result) <= s_args.top_k
        /\ \A i \in DOMAIN s_result :
              \A k \in DOMAIN s_rows[i] : s_result[i][k] = s_rows[i][k]

\* the returned rows are in order of non-increasing score, and no row left
\* out has a strictly higher score than a returned one
C13_DescendingAndNoBetterLeftOut ==
    Scored =>
        /\ \A i, j \in DOMAIN s_result :
              i < j => s_result[i].score >= s_result[j].score
        /\ \A i \in DOMAIN s_result :
              \A j \in DOMAIN s_rows :
                 j > Len(s_result) => s_rows[j].score <= s_result[i].score

\* rows of equal score keep their retrieval order, among the returned rows
\* and between a returned row and a row left out
C13_TiesInRetrievalOrder ==
    Scored =>
        \A i \in DOMAIN s_result :
           \A j \in DOMAIN s_rows :
              (i < j /\ s_rows[i].score = s_rows[j].score)
                  => PoolIndex(i) < PoolIndex(j)

\* C13: the returned list is the pool sorted by score in descending order,
\* ties kept in retrieval order, truncated to top_k: at most top_k rows, no
\* row left out with a strictly higher score than a returned one.
C13_SortedStableTruncated ==
    /\ C13_AtMostTopK
    /\ C13_DescendingAndNoBetterLeftOut
    /\ C13_TiesInRetrievalOrder

(***************************************************************************)
(* SimpleMemory (SpecMemory)                                               *)
(***************************************************************************)

\* C14: get_recent_items returns only titles of entries of the category
\* written within the 24 hours before the call.
C14_RecentWithinWindow ==
    \A i \in DOMAIN m_recent :
       \E j \in DOMAIN recent_recommendations :
          /\ recent_recommendations[j].title = m_recent[i]
          /\ recent_recommendations[j].category = m_query.category
          /\ recent_recommendations[j].timestamp <= m_query.at
          /\ m_query.at - recent_recommendations[j].timestamp <= Cutoff

\* C19: writing an entry whose title and category the collection already
\* holds never makes get_recent_items drop a title it returned before the
\* write, that is, a title written within the window stays suppressed.
C19_DuplicatesHarmless ==
    [][\A category \in MemoryCategories :
          (/\ Len(recent_recommendations') = Len(recent_recommendations) + 1
           /\ LET e == recent_recommendations'[Len(recent_recommendations')]
              IN  \E j \in DOMAIN recent_recommendations :
                     /\ recent_recommendations[j].title = e.title
                     /\ recent_recommendations[j].category = e.category)
          => \A title \in Range(get_recent_items(recent_recommendations, category)) :
                title \in Range(get_recent_items(recent_recommendations', category))]_vars

(***************************************************************************)
(* The recommendation flow of chat_endpoint (Spec)                         *)
(***************************************************************************)

\* the reply of the step carries recommended items
ReturnsItems ==
    /\ n_msgs' = n_msgs + 1
    /\ reply'.response_type \in {"fitness_recommendation", "nutrition_recommendation"}

\* one recency entry per returned item, in the order of the items
RecencyEntries ==
    [i \in DOMAIN reply'.items |->
        IF reply'.response_type = "fitness_recommendation"
        THEN [title |-> reply'.items[i].Title, category |-> "exercises",
              timestamp |-> now]
        ELSE [title |-> reply'.items[i].Name, category |-> "foods",
              timestamp |-> now]]

\* C15: when a message is answered with items and no call of the recency
\* store raised, the collection after the reply is the collection before it
\* followed by exactly one entry per returned item, with the item's title and
\* the category of the request; nothing is written for a candidate that was
\* filtered out or cut off.
C15_ReturnedItemsRecorded ==
    [][(ReturnsItems /\ memory_ok') =>
          /\ reply'.items # << >>
          /\ recent_recommendations' = recent_recommendations \o RecencyEntries]_vars

\* items were returned and recorded while the recommender had given more
\* rows than were returned
C15_Witness ==
    /\ reply.response_type = "fitness_recommendation"
    /\ memory_ok
    /\ Len(reply.items) < Len(reply.raw_recs)
    /\ Len(recent_recommendations) >= Len(reply.items)
    /\ \A i \in DOMAIN reply.items :
          \E j \in DOMAIN recent_recommendations :
             /\ recent_recommendations[j].title = reply.items[i].Title
             /\ recent_recommendations[j].category = "exercises"
    /\ \E i \in DOMAIN reply.raw_recs :
          \A j \in DOMAIN recent_recommendations :
             recent_recommendations[j].title # reply.raw_recs[i].Title

\* the message of the step went through retrieval
Retrieved ==
    /\ n_msgs' = n_msgs + 1
    /\ \E i \in DOMAIN stages' : stages'[i] = "Retrieve"

\* every exercise of the catalog is on the ignore list the recommender got
NoExerciseLeft(r) ==
    /\ r.intent \in {"fitness_request", "fitness_variation"}
    /\ \A i \in DOMAIN fitness_exercises :
          \E j \in DOMAIN r.ignore_list :
             Norm(r.ignore_list[j]) = Norm(fitness_exercises[i].Title)

\* the reply is the generic fallback of a flow that found nothing
NoRecommendation(r) ==
    /\ r.response_type \in {"fitness_fallback", "nutrition_fallback"}
    /\ r.text = TextGenerated
    /\ r.items = << >>
    /\ r.intent # "safety_block"
    /\ r.admission = "ok"

\* C16: when retrieval leaves no candidate at any tier the recommender gives
\* an empty list, and a flow whose recommender gave an empty list ends with
\* the generic fallback reply, returns no items, writes no recency entry and
\* is not a safety block.
C16_EmptyPoolGivesNoRecommendation ==
    [][Retrieved =>
          /\ NoExerciseLeft(reply') => reply'.raw_recs = << >>
          /\ reply'.raw_recs = << >> =>
                /\ NoRecommendation(reply')
                /\ recent_recommendations' = recent_recommendations]_vars

\* a variation request after every exercise of the catalog has been shown
C16_Witness ==
    /\ NoExerciseLeft(reply)
    /\ reply.response_type = "fitness_fallback"
    /\ reply.raw_recs = << >>
    /\ stages = <<"ProfileCheck", "Retrieve", "Rank", "InjuryFilter", "Done">>

\* C17: with a store that is unavailable or raises, the server process does
\* not crash, at start-up or later, and every message it takes is answered.
C17_StoreFailureNeverFatal ==
    /\ process # "crashed"
    /\ n_msgs > 0 => reply.response_type # "none"

StageOrder == <<"ProfileCheck", "Retrieve", "Rank", "InjuryFilter", "Record", "Done">>

StageIndex(stage) == CHOOSE i \in DOMAIN StageOrder : StageOrder[i] = stage

HasStage(run, stage) == \E i \in DOMAIN run : run[i] = stage

\* the stages of the run are stages of the flow, each after those before it
InStageOrder(run) ==
    /\ \A i \in DOMAIN run : HasStage(StageOrder, run[i])
    /\ \A i, j \in DOMAIN run : i < j => StageIndex(run[i]) < StageIndex(run[j])

C18_IgnoredItemNeverRecommended ==
    [][n_msgs' = n_msgs + 1 =>
          \A i \in DOMAIN reply'.items :
             \A j \in DOMAIN Get(users_profile, "ignore_list", << >>) :
                users_profile.ignore_list[j] # Lower(ItemName(reply'.items[i]))]_vars

(***************************************************************************)
(* Retrieval tiers (SpecRec)                                               *)
(***************************************************************************)

RecLevel == Get(r_args.user_profile, "fitness_level", "Intermediate")

RecTarget == IF r_args.target # "" THEN TitleCase(r_args.target) ELSE r_args.target

RecStart == [candidates |-> << >>, seen_titles |-> Range(CleanList(r_args.ignore_list))]

\* what the query on the user's own level and the target's body parts puts
\* into the pool
ExactTierYield ==
    AddLevelCands(FetchExact(fitness_exercises, RecLevel, search_terms(RecTarget),
                             RecStart.seen_titles, CleanList(r_args.dislikes)),
                  RecStart, r_args.no_equipment).candidates

\* what the pool holds after the loop over the levels
CascadeYield ==
    LevelCascade(fitness_exercises, search_levels(RecLevel), RecStart, RecTarget,
                 CleanList(r_args.dislikes), r_args.no_equipment,
                 r_args.top_k).candidates

\* the pools the call scores
RecPools ==
    FitnessCandidates(fitness_exercises, r_args.user_profile, RecTarget,
                      CleanList(r_args.ignore_list), r_args.top_k,
                      CleanList(r_args.dislikes), r_args.no_equipment)

\* C21: an exercise of another level than the user's is in the candidate pool
\* only when the exact tier yielded fewer than minCount exercises (taken here
\* as the min_count = top_k * 3 the code hands to that tier, the largest
\* reading of minCount), and the pool holds an exercise from the catalog scan
\* only when the first two tiers together yielded fewer than top_k.
C21_LaterTierOnlyWhenUnderfilled ==
    (r_called /\ r_args.intent \in FitnessIntents) =>
        LET exact == ExactTierYield
            cascade == CascadeYield
        IN  \A pool \in RecPools :
               /\ (\E i \in DOMAIN pool : pool[i].Level # RecLevel)
                     => Len(exact) < r_args.top_k * 3
               /\ ~(Range(pool) \subseteq Range(cascade))
                     => Len(cascade) < r_args.top_k

\* the part of C21 that holds: the catalog scan adds to the pool only when
\* the loop over the levels left fewer than top_k candidates
C21_ScanOnlyWhenUnderfilled ==
    (r_called /\ r_args.intent \in FitnessIntents) =>
        LET cascade == CascadeYield
        IN  \A pool \in RecPools :
               ~(Range(pool) \subseteq Range(cascade))
                  => Len(cascade) < r_args.top_k

\* the normalized titles (exercises) or names (food) of a list of rows
ItemKey(row) ==
    IF "Title" \in DOMAIN row THEN Norm(row.Title) ELSE Norm(row.Name)

NoDuplicateKeys(rows) ==
    \A i, j \in DOMAIN rows : ItemKey(rows[i]) = ItemKey(rows[j]) => i = j

\* C22, exercises: no candidate pool and no list returned for a fitness
\* request holds two exercises with the same normalized title
C22_NoDuplicateExercises ==
    (r_called /\ r_args.intent \in FitnessIntents) =>
        /\ NoDuplicateKeys(r_result)
        /\ \A pool \in RecPools : NoDuplicateKeys(pool)

\* C22: the list returned by get_recommendations never holds two items with
\* the same case- and whitespace-normalized title (exercises) or name (food),
\* whatever duplicates the catalog holds
C22_NoDuplicateTitles ==
    r_called => NoDuplicateKeys(r_result)

(***************************************************************************)
(* Effectiveness as a function of the keyword count (SpecScore)            *)
(***************************************************************************)

\* c: the number of gold-standard keywords of the goal that occur in the
\* combined text of the row
KeywordCount(row) ==
    LET text == IF "Title" \in DOMAIN row
                THEN Lower(row.Title) \o " " \o Lower(row.Desc) \o " "
                     \o Lower(row.Bodypart)
                ELSE Lower(row.Name) \o " " \o Lower(row.Category)
        gold == gold_standards(s_args.user_profile)
    IN  Cardinality({i \in DOMAIN gold : Contains(Lower(gold[i]), text)})

\* min(1, min(1, c/3) + 0.4) when c > 0, and 0 when c = 0, in thirtieths
EffectivenessOfCount(c) ==
    IF c > 0 THEN Min(30, Min(30, 10 * c) + 12) ELSE 0

\* the 0.3 * preference part of the score of the row at position a of df
PreferencePart(a) ==
    LET row == s_rows[a]
        fields == IF "Title" \in DOMAIN row
                  THEN {Lower(row.Title), Lower(row.Equipment)}
                  ELSE {Lower(row.Name)}
        boost == IF HasPreferenceMatch(s_args.likes, fields) THEN 9 ELSE 0
    IN  3 * Min(30, s_cosine[PoolIndex(a)] + boost)

\* the effectiveness the score of the row at position a was computed from,
\* times 7
EffectivenessPart(a) == s_rows[a].score - PreferencePart(a)

\* a food of more than 20 g protein, scored for a goal whose gold standards
\* hold the keyword High Protein
ProteinCounted(row) ==
    /\ "Name" \in DOMAIN row
    /\ row.Protein > 20
    /\ "High Protein" \in Range(gold_standards(s_args.user_profile))

Unscored == s_called /\ ~Scored

\* when the similarity computation raised, the call still returns the first
\* top_k candidates, in retrieval order
C24_FallbackInRetrievalOrder ==
    Unscored =>
        /\ Len(s_result) = Min(Len(s_candidates), s_args.top_k)
        /\ \A i \in DOMAIN s_result :
              \A k \in DOMAIN s_candidates[i] : s_result[i][k] = s_candidates[i][k]

\* C24: when the similarity computation raised for a non-empty pool, the
\* call returns up to top_k items in retrieval order, each carrying a score
\* computed from effectiveness only (0.7 * effectiveness)
C24_FallbackScoredByEffectiveness ==
    Unscored =>
        /\ Len(s_result) = Min(Len(s_candidates), s_args.top_k)
        /\ \A i \in DOMAIN s_result :
              /\ \A k \in DOMAIN s_candidates[i] : s_result[i][k] = s_candidates[i][k]
              /\ "score" \in DOMAIN s_result[i]
              /\ s_result[i].score
                    = 7 * (IF "Title" \in DOMAIN s_result[i]
                           THEN FitnessEffectiveness(s_candidates[i], s_args.user_profile)
                           ELSE NutritionEffectiveness(s_candidates[i], s_args.user_profile))

(***************************************************************************)
(* The protocol annotation (SpecProtocol)                                  *)
(***************************************************************************)

ProtocolGoal == Get(s_args.user_profile, "goal", "Maintenance")

SetsOfLevel(level) ==
    IF level = "Beginner" THEN "2-3"
    ELSE IF level = "Intermediate" THEN "3-4"
    ELSE "4-5"

Annotated(i) ==
    /\ "protocol" \in DOMAIN s_result[i]
    /\ s_result[i].Level \in {"Beginner", "Intermediate", "Advanced"}

\* the sets of every returned exercise follow its level: 2-3, 3-4 and 4-5
\* for Beginner, Intermediate and Advanced
C25_SetsByLevel ==
    s_called =>
        \A i \in DOMAIN s_result :
            Annotated(i) => s_result[i].protocol.sets = SetsOfLevel(s_result[i].Level)

\* C25: the protocol of every returned exercise has sets 2-3 / 3-4 / 4-5 for
\* level Beginner / Intermediate / Advanced, and 8-12 reps with 60s rest for
\* a muscle goal, 12-15 reps with 30-45s rest for a loss goal, and 10-12
\* reps with 60s rest for every other goal, a gain goal that is not a muscle
\* goal included
C25_ProtocolByLevelAndGoal ==
    s_called =>
        \A i \in DOMAIN s_result :
            Annotated(i) =>
                LET protocol == s_result[i].protocol
                IN  /\ protocol.sets = SetsOfLevel(s_result[i].Level)
                    /\ IF Contains("Muscle", ProtocolGoal)
                       THEN protocol.reps = "8-12" /\ protocol.rest = "60s"
                       ELSE IF Contains("Loss", ProtocolGoal)
                       THEN protocol.reps = "12-15" /\ protocol.rest = "30-45s"
                       ELSE protocol.reps = "10-12" /\ protocol.rest = "60s"

(***************************************************************************)
(* The stored BMI (SpecProfile)                                            *)
(***************************************************************************)

StoredWeight == Get(users_profile, "weight", 0)
StoredHeight == Get(users_profile, "height", 0)

\* the stored bmi is the one of the stored weight and height
BmiConsistent ==
    (StoredWeight > 0 /\ StoredHeight > 0) =>
        Get(users_profile, "bmi", 0) = calculate_bmi(StoredWeight, StoredHeight)

\* the last weight log was written by log_weight
LoggedByLogWeight(logs) ==
    logs # << >> /\ "date" \in DOMAIN logs[Len(logs)]

\* profile updates and add_weight_log keep the stored bmi consistent
C26_UpdatesAndChatLogsKeepBmi ==
    [][(BmiConsistent /\ ~(Len(weight_logs') > Len(weight_logs)
                           /\ LoggedByLogWeight(weight_logs')))
          => BmiConsistent']_vars

\* C26: after any sequence of profile updates and weight logs
\* (add_weight_log, log_weight), a profile whose stored weight and height are
\* positive has the bmi calculate_bmi gives for them
C26_StoredBmiConsistent == BmiConsistent

(***************************************************************************)
(* Variations within one session (SpecSession)                             *)
(***************************************************************************)

\* a message was answered
Answered == n_msgs' = n_msgs + 1

\* a variation never returns a title of the seen_titles the client sent
\* with the message
C27_VariationAvoidsSessionTitles ==
    [][(Answered /\ reply'.intent \in {"fitness_variation", "nutrition_variation"}) =>
          ItemTitles(reply'.items)
             \cap Range(CleanList(Get(session, "seen_titles", << >>))) = {}]_vars

\* C27: within one session, a variation never returns a title that an
\* earlier reply of the same kind returned since that kind's most recent
\* initial request, however fitness and nutrition requests interleave and
\* whether or not the recency store is available
C27_VariationNeverRepeats ==
    [][/\ (Answered /\ reply'.intent = "fitness_variation") =>
             ItemTitles(reply'.items) \cap shown_titles.exercises = {}
       /\ (Answered /\ reply'.intent = "nutrition_variation") =>
             ItemTitles(reply'.items) \cap shown_titles.foods = {}]_vars

(***************************************************************************)
(* Preferences in the session returned (Spec)                              *)
(***************************************************************************)

\* the entities of the message carry preferences or dislikes
CarriesPreferences(analysis) ==
    LET entities == Get(analysis, "entities", << >>)
    IN  \/ Get(entities, "preference", "") # ""
        \/ Get(entities, "preferences", << >>) # << >>
        \/ Get(entities, "dislikes", << >>) # << >>

\* the session returned holds the likes and dislikes the handler ended with
PreferencesReturned ==
    /\ Get(session', "likes", << >>) = reply'.likes
    /\ Get(session', "dislikes", << >>) = reply'.dislikes

\* on the replies that reach the session update at the end of the handler,
\* the session returned holds the updated likes and dislikes
C28_FullPathReturnsPreferences ==
    [][(Answered /\ CarriesPreferences(reply'.analysis)
          /\ reply'.intent \notin {"profile_incomplete", "safety_block", ""})
         => PreferencesReturned]_vars

\* C28: for every message whose entities carry preferences or dislikes, the
\* session returned contains the updated likes and dislikes, on every
\* response path and whether or not the session received had the keys
C28_SessionCarriesPreferences ==
    [][(Answered /\ CarriesPreferences(reply'.analysis)) => PreferencesReturned]_vars

(***************************************************************************)
(* The except clause of chat_endpoint (Spec)                               *)
(***************************************************************************)

\* the handler ended in its except clause
ErrorReplied == Answered /\ reply'.response_type = "error"

\* the session returned has the value the client sent under the key
SessionKept(k) ==
    (k \in DOMAIN session) => (k \in DOMAIN session' /\ session'[k] = session[k])

\* C29: when processing raises an internal error the endpoint still replies,
\* and the session returned preserves the likes, dislikes, seen titles and
\* last target the client sent
C29_ErrorKeepsSession ==
    [][ErrorReplied =>
          /\ reply'.text = TextError
          /\ SessionKept("likes")
          /\ SessionKept("dislikes")
          /\ SessionKept("seen_titles")
          /\ SessionKept("last_target")]_vars

(***************************************************************************)
(* Nutrition logs of one day (SpecNutrition)                               *)
(***************************************************************************)

\* the sum of the values of a macro over the entries
RECURSIVE SumOver(_, _)
SumOver(entries, k) ==
    IF entries = << >> THEN 0
    ELSE Get(Head(entries), k, 0) + SumOver(Tail(entries), k)

StoredEntries == Get(nutrition_logs, "entries", << >>)

\* the stored totals are the sums over the stored entries
TotalsMatchEntries ==
    \A i \in DOMAIN Macros :
        Get(nutrition_logs, Macros[i], 0) = SumOver(StoredEntries, Macros[i])

\* the entry of every call that returned the document is stored
CompletedEntriesStored ==
    \A c \in DOMAIN calls :
        calls[c].pc = "done" =>
            \E i \in DOMAIN StoredEntries :
                StoredEntries[i] = NewEntry(c, calls[c].values)

\* the stored totals always equal the sums over the stored entries
C30_TotalsAreSumsOfEntries == TotalsMatchEntries

\* C30: after any interleaving of add_nutrition_log calls for one user on
\* one day, the stored totals equal the sums over the stored entries and the
\* entry of every completed call is present
C30_NoLostUpdate == TotalsMatchEntries /\ CompletedEntriesStored

====
